---- MODULE Spec2Model ----
(***************************************************************************)
(* State-machine model of the EII deployment tool backend:                 *)
(*   - libs/util.py    : the process-wide progress state (Util.state_info) *)
(*   - libs/builder.py : do_build / do_deploy and their worker threads,    *)
(*                       do_generate_config, do_set_config, do_run         *)
(*   - libs/camera.py  : the device registry, the capture workers and the  *)
(*                       feed consumers                                    *)
(* Every Python statement that reads or writes shared state is one step;   *)
(* purely local computation is folded into the neighbouring step.          *)
(***************************************************************************)
EXTENDS Integers, Sequences, FiniteSets, TLC

(***************************************************************************)
(* Bounds of the model                                                     *)
(***************************************************************************)
MaxWorkers  == 2   \* task Thread objects created in one behaviour, and
                   \* do_build / do_deploy requests in flight at one time
MaxThreads  == 3   \* the same, in a behaviour of do_deploy requests only
MaxLen      == 2   \* longest image list and device list
MaxServices == 3   \* longest service list and compose manifest
MaxStreams  == 2   \* capture Thread objects in existence at one time
MaxFrames   == 1   \* frames a capture worker puts into the queue of an entry
MaxClients  == 2   \* camera start / stop calls in flight at one time
MaxPublished == 3  \* frames put into queues in a behaviour that numbers them

Workers == 1..MaxThreads
Callers == Workers

(***************************************************************************)
(* Keys and literals of Util (util.py:52-67)                               *)
(***************************************************************************)
IN_PROGRESS == "In Progress"
SUCCESS     == "Success"
FAILED      == "Failed"
BUILD       == "build"
DEPLOY      == "deploy"
START       == "start"
STOP        == "stop"
RESTART     == "restart"
BUSY        == "busy"
Kinds       == {BUILD, DEPLOY}

SvcNames == <<"s1", "s2", "s3", "s4", "s5">>
ImgNames == <<"i1", "i2", "i3", "i4">>
Star     == <<"*">>

\* the service lists a request may carry: [], ["*"], and explicit lists
ServiceArgs == {Star} \cup {SubSeq(SvcNames, 1, n) :  n \in 0..MaxServices}
ImageArgs   == {SubSeq(ImgNames, 1, n) : n \in 0..MaxLen}
\* what reading docker-compose-build.yml can give: a list of services,
\* a document without a "services" key, or a read/parse exception
Manifests   == {[res |-> "ok", services |-> SubSeq(SvcNames, 1, n)] :
                   n \in 0..MaxServices}
               \cup {[res |-> "nokey", services |-> <<>>],
                     [res |-> "error", services |-> <<>>]}

(***************************************************************************)
(* Progress values.  Python stores "" initially, an int for every build    *)
(* write and the float (i*100)/(n_images+1) for deploy's loop: a value is  *)
(* the fraction num/den in lowest terms together with its Python type.     *)
(***************************************************************************)
RECURSIVE GCD(_, _)
GCD(a, b) == IF b = 0 THEN a ELSE GCD(b, a % b)

StrP        == [num |-> 0, den |-> 1, type |-> "str"]
IntP(n)     == [num |-> n, den |-> 1, type |-> "int"]
\* Python 3 true division a / b of two ints: always a float
TrueDiv(a, b) == LET g == GCD(a, b) IN
                 [num |-> a \div g, den |-> b \div g, type |-> "float"]
\* int(x) of a non-negative float: truncation
PyInt(p)    == IntP(p.num \div p.den)
\* p <= q on numeric progress values
PLeq(p, q)  == p.num * q.den <= q.num * p.den

VARIABLES
    state_info,   \* Util.state_info: [task, progress, status]
    threads,      \* Builder.threads: kind -> [alive, thread]
    workers,      \* the task Thread objects created so far: id -> record;
                  \* ran counts the external commands the worker has
                  \* issued, failed tells that one of them returned failure
    nworkers,     \* number of task Thread objects created so far
    calls,        \* per API request: the do_build / do_deploy call in flight
    ret,          \* what the last step returned to its API caller, if it returned
    ext,          \* files written and commands run by a request handler in
                  \* the last step
    device_threads, \* Camera.device_threads: device -> [id, thread, alive, frames]
    mutex,        \* Camera.mutex: TRUE while the Lock is locked
    streamers,    \* the capture Thread objects still referenced: id -> record
    requests,     \* per camera client: the start / stop / get_status /
                  \* read_frame call in flight
    cret,         \* the camera call that ended in the last step, if one did
    owner,        \* the thread whose acquire() locked Camera.mutex, while
                  \* it is locked
    poll,         \* Util.state_info as the statements of the set_state
                  \* call in flight have left it, the position of that
                  \* call, the dictionary a get_state call has returned,
                  \* and the triples Util.state_info has held between calls
    feed          \* the frames of the feeds: the content of the queue of
                  \* each entry (by its Thread object), the queue each
                  \* worker has looked up, the number of frames put so
                  \* far, and the frames each read_frame call has yielded

tvars == <<state_info, threads, workers, nworkers, calls, ret, ext>>
cvars == <<device_threads, mutex, streamers, requests, cret>>
vars  == <<tvars, cvars, owner, feed, poll>>

\* a request slot with no call in flight
Idle == [pc |-> "idle", kind |-> "none", list |-> <<>>, sequential |-> FALSE]

\* a Thread object that does not exist (yet) or whose thread has ended
NoThread(pc) == [kind |-> "none", pc |-> pc, list |-> <<>>, sequential |-> FALSE,
                 i |-> 0, wrote |-> StrP, wstat |-> "", ran |-> 0, done |-> FALSE,
                 failed |-> FALSE]

NoRet == "none"

(***************************************************************************)
(* Util.is_busy and Util.set_state                                         *)
(***************************************************************************)
is_busy == state_info.status = IN_PROGRESS

\* the state_info after set_state(task, progress, status); progress is
\* never None at any call site, so only the assigning branch is reachable
set_state(task, progress, status) ==
    IF progress.type = "none"
    THEN state_info
    ELSE [task |-> task, progress |-> progress, status |-> status]

\* workers that have been started and whose thread has not ended
Running(w) == workers[w].pc \notin {"none", "new", "lost", "exited", "crashed"}

(***************************************************************************)
(* Builder.do_build / Builder.do_deploy, statement by statement            *)
(***************************************************************************)
\* is_busy() check at entry.  A new request takes the lowest free request
\* slot, and gets past the check only while a Thread object is left for it
\* within cap
task_request(c, kind, list, sequential, cap) ==
    /\ calls[c].pc = "idle"
    /\ \A k \in Callers : k < c => calls[k].pc # "idle"
    /\ IF is_busy
       THEN /\ ret' = BUSY
            /\ UNCHANGED calls
       ELSE /\ nworkers + Cardinality({k \in Callers : calls[k].pc # "idle"})
                 < cap
            /\ calls' = [calls EXCEPT ![c] = [pc |-> "set_state", kind |-> kind,
                                              list |-> list, sequential |-> sequential]]
            /\ ret' = NoRet
    /\ ext' = <<>>
    /\ UNCHANGED <<state_info, threads, workers, nworkers>>

task_call(c, kind, list, sequential) ==
    task_request(c, kind, list, sequential, MaxWorkers)

do_build(c) ==
    \E services \in ServiceArgs, sequential \in BOOLEAN :
        task_call(c, BUILD, services, sequential)

do_deploy(c) ==
    \E images \in ImageArgs : task_call(c, DEPLOY, images, FALSE)

\* do_deploy for a list of MaxLen images, where MaxThreads Thread objects
\* are left
do_deploy_images(c) ==
    task_request(c, DEPLOY, SubSeq(ImgNames, 1, MaxLen), FALSE, MaxThreads)

\* Util.set_state(kind, 0)
task_set_state(c) ==
    /\ calls[c].pc = "set_state"
    /\ state_info' = set_state(calls[c].kind, IntP(0), IN_PROGRESS)
    /\ calls' = [calls EXCEPT ![c].pc = "thread"]
    /\ ret' = NoRet /\ ext' = <<>>
    /\ UNCHANGED <<threads, workers, nworkers>>

\* self.threads[kind][THREAD] = Thread(target=..., args=...)
\* (the run's first progress value, 0, was written by task_set_state)
task_new_thread(c) ==
    /\ calls[c].pc = "thread"
    /\ nworkers' = nworkers + 1
    /\ LET old == threads[calls[c].kind].thread
           new == [kind |-> calls[c].kind, pc |-> "new", list |-> calls[c].list,
                   sequential |-> calls[c].sequential, i |-> 0,
                   wrote |-> IntP(0), wstat |-> IN_PROGRESS, ran |-> 0,
                   done |-> FALSE, failed |-> FALSE]
       IN  workers' = [w \in Workers |->
                          IF w = nworkers + 1 THEN new
                          \* an unstarted Thread the slot no longer refers to
                          \* can never be started: it is garbage
                          ELSE IF w = old /\ workers[w].pc = "new" THEN NoThread("lost")
                          ELSE workers[w]]
    /\ threads' = [threads EXCEPT ![calls[c].kind].thread = nworkers + 1]
    /\ calls' = [calls EXCEPT ![c].pc = "alive"]
    /\ ret' = NoRet /\ ext' = <<>>
    /\ UNCHANGED state_info

\* self.threads[kind][ALIVE] = True
task_set_alive(c) ==
    /\ calls[c].pc = "alive"
    /\ threads' = [threads EXCEPT ![calls[c].kind].alive = TRUE]
    /\ calls' = [calls EXCEPT ![c].pc = "start"]
    /\ ret' = NoRet /\ ext' = <<>>
    /\ UNCHANGED <<state_info, workers, nworkers>>

\* self.threads[kind][THREAD].start(); return True.  The Thread object is
\* the one the slot holds now; starting a started Thread raises RuntimeError
task_start(c) ==
    /\ calls[c].pc = "start"
    /\ LET t == threads[calls[c].kind].thread IN
       IF workers[t].pc = "new"
       THEN /\ workers' = [workers EXCEPT ![t].pc =
                               IF workers[t].kind = BUILD THEN "begin" ELSE "loop"]
            /\ ret' = "ok"
       ELSE /\ UNCHANGED workers
            /\ ret' = "RuntimeError"
    /\ calls' = [calls EXCEPT ![c] = Idle]
    /\ ext' = <<>>
    /\ UNCHANGED <<state_info, threads, nworkers>>

(***************************************************************************)
(* Steps shared by builder_thread and deployer_thread                      *)
(***************************************************************************)
\* the worker w writes (progress, status) through Util.set_state
Write(w, progress, status, pc) ==
    /\ state_info' = set_state(workers[w].kind, progress, status)
    /\ workers' = [workers EXCEPT ![w].wrote = progress, ![w].wstat = status,
                                  ![w].pc = pc]

\* worker_fail writing status 'Failed' with the progress left as it is
worker_fail_frozen(w) ==
    /\ workers[w].pc = "fail"
    /\ Write(w, workers[w].wrote, FAILED, "clear_alive")
    /\ ret' = NoRet /\ ext' = <<>>
    /\ UNCHANGED <<threads, nworkers, calls>>

\* Util.set_state(kind, 0, "Failed") after a failed step
worker_fail(w) ==
    /\ workers[w].pc = "fail"
    /\ Write(w, IntP(0), FAILED, "clear_alive")
    /\ ret' = NoRet /\ ext' = <<>>
    /\ UNCHANGED <<threads, nworkers, calls>>

\* self.threads[kind][ALIVE] = False, then the thread ends
worker_clear_alive(w) ==
    /\ workers[w].pc = "clear_alive"
    /\ threads' = [threads EXCEPT ![workers[w].kind].alive = FALSE]
    /\ workers' = [workers EXCEPT ![w] = NoThread("exited")]
    /\ ret' = NoRet /\ ext' = <<>>
    /\ UNCHANGED <<state_info, nworkers, calls>>

(***************************************************************************)
(* Builder.builder_thread.  An external command reads and writes nothing   *)
(* of the shared state, so it is folded into the step of the shared access *)
(* that precedes it; the worker counts the commands it has issued in ran.  *)
(***************************************************************************)
\* lines 324-331: remove the old build log on the host
builder_rmlog(r, ok) ==
    [r EXCEPT !.ran = @ + 1, !.failed = ~ok,
              !.pc = IF ~ok THEN "fail"
                     ELSE IF r.sequential THEN "loop" ELSE "batch50"]

\* lines 309-331: resolve the service list, then remove the old build log
builder_begin(w) ==
    /\ workers[w].kind = BUILD /\ workers[w].pc = "begin"
    /\ \/ /\ workers[w].list = <<>>                \* services[0]: IndexError
          /\ workers' = [workers EXCEPT ![w] = NoThread("crashed")]
       \/ /\ workers[w].list # <<>> /\ workers[w].list # Star
          /\ \E ok \in BOOLEAN :
                workers' = [workers EXCEPT ![w] =
                               builder_rmlog([@ EXCEPT !.sequential = TRUE], ok)]
       \/ /\ workers[w].list = Star /\ workers[w].sequential
          /\ \E m \in Manifests :
                CASE m.res = "ok" ->
                        \E ok \in BOOLEAN :
                            workers' = [workers EXCEPT ![w] =
                                builder_rmlog([@ EXCEPT !.list = m.services], ok)]
                  [] m.res = "error" ->
                        workers' = [workers EXCEPT ![w].pc = "fail"]
                  \* the function returns None: unpacking raises TypeError
                  [] m.res = "nokey" ->
                        workers' = [workers EXCEPT ![w] = NoThread("crashed")]
       \/ /\ workers[w].list = Star /\ ~workers[w].sequential
          /\ \E ok \in BOOLEAN :
                workers' = [workers EXCEPT ![w] = builder_rmlog(@, ok)]
    /\ ret' = NoRet /\ ext' = <<>>
    /\ UNCHANGED <<state_info, threads, nworkers, calls>>

\* builder_loop going on with the next service after a failed build command
builder_loop_continue(w) ==
    /\ workers[w].kind = BUILD /\ workers[w].pc = "loop"
    /\ IF workers[w].i = Len(workers[w].list) \/ ~threads[BUILD].alive
       THEN workers' = [workers EXCEPT ![w].pc = "success"]
       ELSE \E ok \in BOOLEAN :
               workers' = [workers EXCEPT ![w] =
                   [@ EXCEPT !.ran = @ + 1, !.i = @ + 1, !.pc = "progress",
                             !.failed = @ \/ ~ok]]
    /\ ret' = NoRet /\ ext' = <<>>
    /\ UNCHANGED <<state_info, threads, nworkers, calls>>

\* lines 336-350: next service of the loop, the alive check, and the build
\* command of that service
builder_loop(w) ==
    /\ workers[w].kind = BUILD /\ workers[w].pc = "loop"
    /\ IF workers[w].i = Len(workers[w].list) \/ ~threads[BUILD].alive   \* break
       THEN workers' = [workers EXCEPT ![w].pc = "success"]
       ELSE \E ok \in BOOLEAN :
               workers' = [workers EXCEPT ![w] =
                   IF ok THEN [@ EXCEPT !.ran = @ + 1, !.i = @ + 1, !.pc = "progress"]
                   ELSE [@ EXCEPT !.ran = @ + 1, !.failed = TRUE, !.pc = "fail"]]
    /\ ret' = NoRet /\ ext' = <<>>
    /\ UNCHANGED <<state_info, threads, nworkers, calls>>

\* builder_progress publishing the share of the services still to build
builder_progress_remaining(w) ==
    /\ workers[w].kind = BUILD /\ workers[w].pc = "progress"
    /\ Write(w, PyInt(TrueDiv((Len(workers[w].list) - workers[w].i) * 100,
                              Len(workers[w].list))),
             IN_PROGRESS, "loop")
    /\ ret' = NoRet /\ ext' = <<>>
    /\ UNCHANGED <<threads, nworkers, calls>>

\* builder_progress publishing the percentage rounded up
builder_progress_ceiling(w) ==
    /\ workers[w].kind = BUILD /\ workers[w].pc = "progress"
    /\ Write(w, IntP((workers[w].i * 100 + Len(workers[w].list) - 1)
                        \div Len(workers[w].list)),
             IN_PROGRESS, "loop")
    /\ ret' = NoRet /\ ext' = <<>>
    /\ UNCHANGED <<threads, nworkers, calls>>

\* line 351: Util.set_state(BUILD, int((i*100)/num_services))
builder_progress(w) ==
    /\ workers[w].kind = BUILD /\ workers[w].pc = "progress"
    /\ Write(w, PyInt(TrueDiv(workers[w].i * 100, Len(workers[w].list))),
             IN_PROGRESS, "loop")
    /\ ret' = NoRet /\ ext' = <<>>
    /\ UNCHANGED <<threads, nworkers, calls>>

\* lines 353-363: Util.set_state(BUILD, 50), then the single aggregate
\* build command
builder_batch(w) ==
    /\ workers[w].kind = BUILD /\ workers[w].pc = "batch50"
    /\ \E ok \in BOOLEAN :
          /\ state_info' = set_state(BUILD, IntP(50), IN_PROGRESS)
          /\ workers' = [workers EXCEPT ![w] =
                [@ EXCEPT !.wrote = IntP(50), !.ran = @ + 1, !.done = ok,
                          !.failed = ~ok,
                          !.pc = IF ok THEN "success" ELSE "fail"]]
    /\ ret' = NoRet /\ ext' = <<>>
    /\ UNCHANGED <<threads, nworkers, calls>>

\* line 365: Util.set_state(BUILD, 100, "Success")
builder_success(w) ==
    /\ workers[w].kind = BUILD /\ workers[w].pc = "success"
    /\ Write(w, IntP(100), SUCCESS, "clear_alive")
    /\ ret' = NoRet /\ ext' = <<>>
    /\ UNCHANGED <<threads, nworkers, calls>>

builder_thread(w) ==
    \/ builder_begin(w)
    \/ builder_loop(w)
    \/ builder_progress(w)
    \/ builder_batch(w)
    \/ builder_success(w)

(***************************************************************************)
(* Builder.deployer_thread                                                 *)
(***************************************************************************)
\* lines 413-425: next image of the loop, the alive check, and the
\* docker save | ssh docker load of that image
deployer_loop(w) ==
    /\ workers[w].kind = DEPLOY /\ workers[w].pc = "loop"
    /\ IF workers[w].i = Len(workers[w].list) \/ ~threads[DEPLOY].alive   \* break
       THEN workers' = [workers EXCEPT ![w].pc = "check"]
       ELSE \E ok \in BOOLEAN :
               workers' = [workers EXCEPT ![w] =
                   IF ok THEN [@ EXCEPT !.ran = @ + 1, !.i = @ + 1, !.pc = "progress"]
                   ELSE [@ EXCEPT !.ran = @ + 1, !.failed = TRUE, !.pc = "fail"]]
    /\ ret' = NoRet /\ ext' = <<>>
    /\ UNCHANGED <<state_info, threads, nworkers, calls>>

\* line 426: Util.set_state(DEPLOY, (i*100)/(n_images + 1))
deployer_progress(w) ==
    /\ workers[w].kind = DEPLOY /\ workers[w].pc = "progress"
    /\ Write(w, TrueDiv(workers[w].i * 100, Len(workers[w].list) + 1),
             IN_PROGRESS, "loop")
    /\ ret' = NoRet /\ ext' = <<>>
    /\ UNCHANGED <<threads, nworkers, calls>>

\* deployer_check without the alive check of line 428
deployer_check_unchecked(w) ==
    /\ workers[w].kind = DEPLOY /\ workers[w].pc = "check"
    /\ \E ok \in BOOLEAN :
          workers' = [workers EXCEPT ![w] =
              [@ EXCEPT !.ran = @ + 1, !.done = ok, !.failed = ~ok,
                        !.pc = IF ok THEN "success" ELSE "fail"]]
    /\ ret' = NoRet /\ ext' = <<>>
    /\ UNCHANGED <<state_info, threads, nworkers, calls>>

\* lines 428-439: the alive check before the sync, and the rsync of the
\* build directory
deployer_check(w) ==
    /\ workers[w].kind = DEPLOY /\ workers[w].pc = "check"
    /\ IF ~threads[DEPLOY].alive
       THEN workers' = [workers EXCEPT ![w].pc = "cancel"]
       ELSE \E ok \in BOOLEAN :
               workers' = [workers EXCEPT ![w] =
                   [@ EXCEPT !.ran = @ + 1, !.done = ok, !.failed = ~ok,
                             !.pc = IF ok THEN "success" ELSE "fail"]]
    /\ ret' = NoRet /\ ext' = <<>>
    /\ UNCHANGED <<state_info, threads, nworkers, calls>>

\* lines 429-430: Util.set_state(DEPLOY, 0, "Failed"); return
deployer_cancel(w) ==
    /\ workers[w].kind = DEPLOY /\ workers[w].pc = "cancel"
    /\ state_info' = set_state(DEPLOY, IntP(0), FAILED)
    /\ workers' = [workers EXCEPT ![w] = NoThread("exited")]
    /\ ret' = NoRet /\ ext' = <<>>
    /\ UNCHANGED <<threads, nworkers, calls>>

\* line 441: Util.set_state(DEPLOY, 100, "Success")
deployer_success(w) ==
    /\ workers[w].kind = DEPLOY /\ workers[w].pc = "success"
    /\ Write(w, IntP(100), SUCCESS, "clear_alive")
    /\ ret' = NoRet /\ ext' = <<>>
    /\ UNCHANGED <<threads, nworkers, calls>>

deployer_thread(w) ==
    \/ deployer_loop(w)
    \/ deployer_progress(w)
    \/ deployer_check(w)
    \/ deployer_cancel(w)
    \/ deployer_success(w)

(***************************************************************************)
(* The configuration and run handlers.  Files and host commands are        *)
(* outside the process: a handler call is one step, and ext lists, in      *)
(* order, the files it wrote and the commands it ran.                      *)
(***************************************************************************)
VI == "VideoIngestion"
VA == "VideoAnalytics"
ComponentArgs == {<<>>, <<VI>>, <<VA>>}
Instances     == {1, 2}
Actions       == {START, STOP, RESTART, "bogus"}

\* component.find("VideoIngestion") == 0
IsVI(component) == component = VI

\* the file operation or command of a do_generate_config call that fails
\* first ("none": all succeed): writing the usecase file, reading .env,
\* .env having no DEV_MODE line, builder.py, reading the new config,
\* reading the old config, storing the merged config
Failures == {"none", "usecase", "env", "nokey", "cmd", "read", "old", "store"}

\* Builder.update_env_file: the file is rewritten unless reading it raised;
\* the status is False when it has no line for the key
update_env_file(value, fail) ==
    IF fail = "env" THEN [status |-> FALSE, ext |-> <<>>]
    ELSE IF fail = "nokey" THEN [status |-> FALSE, ext |-> <<"write .env">>]
    ELSE [status |-> TRUE, ext |-> <<"write .env DEV_MODE=" \o value>>]

\* Builder.do_generate_config past the busy check: [res, ext]
generate_config(components, instances, dev_mode, reset, fail) ==
    LET usecase == IF components # <<>> /\ fail # "usecase"
                   THEN <<"write .usecasex.yml">> ELSE <<>>
        env     == update_env_file(IF dev_mode THEN "true" ELSE "false", fail)
        cmd     == usecase \o env.ext \o <<"builder.py">>
    IN  IF components # <<>> /\ fail = "usecase"
        THEN [res |-> "error", ext |-> <<>>]
        ELSE IF components # <<>> /\ instances > 1
                /\ ~\E k \in 1..Len(components) : IsVI(components[k])
        THEN [res |-> "unsupported multi-instance configuration", ext |-> usecase]
        ELSE IF ~env.status
        THEN [res |-> "error", ext |-> usecase \o env.ext]
        ELSE IF fail \in {"cmd", "read"}
        THEN [res |-> "error", ext |-> cmd]
        ELSE IF reset
        THEN [res |-> "ok", ext |-> cmd]
        \* old_config is None when reading it failed: iterating it raises
        ELSE IF fail = "old"
        THEN [res |-> "TypeError", ext |-> cmd]
        ELSE IF fail = "store"
        THEN [res |-> "error", ext |-> cmd]
        ELSE [res |-> "ok", ext |-> cmd \o <<"write eii_config.json">>]

do_generate_config ==
    /\ IF is_busy
       THEN /\ ret' = BUSY
            /\ ext' = <<>>
       ELSE \E components \in ComponentArgs, instances \in Instances,
               dev_mode \in BOOLEAN, reset \in BOOLEAN, fail \in Failures :
               LET r == generate_config(components, instances, dev_mode, reset, fail)
               IN  /\ ret' = r.res
                   /\ ext' = r.ext
    /\ UNCHANGED <<state_info, threads, workers, nworkers, calls>>

\* do_set_config without its busy check
do_set_config_unchecked ==
    /\ \E load \in BOOLEAN, store \in BOOLEAN :
          IF load /\ store
          THEN /\ ret' = "ok"
               /\ ext' = <<"write eii_config.json">>
          ELSE /\ ret' = "error"
               /\ ext' = <<>>
    /\ UNCHANGED <<state_info, threads, workers, nworkers, calls>>

\* Builder.do_set_config: services is the set of services of the request,
\* valid the outcome of the schema validation of a service, load and store
\* those of reading and writing eii_config.json
do_set_config ==
    /\ IF is_busy
       THEN /\ ret' = BUSY
            /\ ext' = <<>>
       ELSE \E services \in SUBSET {VI, VA}, valid \in BOOLEAN,
               load \in BOOLEAN, store \in BOOLEAN :
               LET \* VideoAnalytics is never validated
                   rejected == ~valid /\ (services \ {VA}) # {}
               IN  IF load /\ ~rejected /\ store
                   THEN /\ ret' = "ok"
                        /\ ext' = <<"write eii_config.json">>
                   ELSE /\ ret' = "error"
                        /\ ext' = <<>>
    /\ UNCHANGED <<state_info, threads, workers, nworkers, calls>>

\* Builder.do_run: conts tells whether docker ps lists any container, ok
\* whether the start / stop command succeeds
do_run ==
    /\ \E action \in Actions :
          IF action \notin {START, STOP, RESTART}
          THEN /\ ret' = "Invalid action"
               /\ ext' = <<>>
          ELSE IF is_busy
          THEN /\ ret' = BUSY
               /\ ext' = <<>>
          ELSE \E conts \in BOOLEAN, ok \in BOOLEAN :
               LET cmd == IF action = STOP
                          THEN (IF conts THEN "docker stop" ELSE "")
                          ELSE "eii_start.sh"
               IN  IF cmd = ""
                   THEN /\ ret' = "ok"
                        /\ ext' = <<"docker ps">>
                   ELSE /\ ret' = IF ok THEN "ok" ELSE "error"
                        /\ ext' = <<"docker ps", cmd>>
    /\ UNCHANGED <<state_info, threads, workers, nworkers, calls>>

(***************************************************************************)
(* Camera (camera.py).  The registry mutex is a plain Lock: it records     *)
(* that it is locked, not by whom.  A critical section is two steps, the   *)
(* acquire and then the body with its release; the device calls and the    *)
(* frame processing of a capture worker touch no shared state and are      *)
(* folded into the step that precedes them.  A Thread object is kept for   *)
(* as long as its thread runs or a registry entry or a stop call refers    *)
(* to it.                                                                  *)
(***************************************************************************)
\* Camera.BUFF_SIZE (camera.py:40)
BUFF_SIZE  == 30
Devices    == {"/dev/video0", "/dev/video1"}
\* the lists over the devices D that are passed to start and stop
DeviceArgs(D) == UNION {[1..n -> D] : n \in 0..MaxLen}
\* the calls that all name the same device
OneDevice  == DeviceArgs({"/dev/video0"})
Streamers  == 1..MaxStreams
Clients    == 1..MaxClients

Range(s) == {s[i] : i \in 1..Len(s)}

\* no capture Thread object
NoStreamer == [dev |-> "", pc |-> "none", opened |-> FALSE]
\* a capture Thread object whose thread has ended
Exited     == [dev |-> "", pc |-> "exited", opened |-> FALSE]
\* a capture Thread object whose start() has raised: it has no thread
Unstarted  == [dev |-> "", pc |-> "unstarted", opened |-> FALSE]
\* the threads that lock Camera.mutex: the request thread of a camera
\* client and the capture thread of a Thread object
Client(c)   == <<"client", c>>
Streamer(w) == <<"streamer", w>>
\* Camera.mutex is not locked
NoOwner     == <<"none", 0>>
\* a client slot with no call in flight
NoCall     == [op |-> "idle", pc |-> "idle", devices |-> <<>>, i |-> 0,
               snap |-> <<>>, n |-> 0, arg |-> <<>>]
\* no camera call ended in the last step
NoResult   == [op |-> "none", res |-> "", devices |-> <<>>, n |-> 0,
               arg |-> <<>>, status |-> <<>>]
\* the call of client c ends with the outcome res; n is the number of
\* threads it has created (start) or joined (stop), arg the device list
\* the call was made with, status the dictionary get_status returns
Result(c, res, n) ==
    [op |-> requests[c].op, res |-> res, devices |-> requests[c].devices,
     n |-> n, arg |-> requests[c].arg, status |-> <<>>]

\* Camera.__init__
\* no frame has been put into any queue
NoFeed == [queue     |-> [t \in Streamers |-> <<>>],
           held      |-> [w \in Streamers |-> 0],
           published |-> 0,
           yielded   |-> [c \in Clients |-> <<>>]]

InitCamera ==
    /\ device_threads = <<>>
    /\ mutex = FALSE
    /\ owner = NoOwner
    /\ feed = NoFeed
    /\ streamers = [w \in Streamers |-> NoStreamer]
    /\ requests = [c \in Clients |-> NoCall]
    /\ cret = NoResult

\* the Thread objects st once those whose thread has ended, and to which
\* neither the registry dts nor the copy held by a stop call in rq refers,
\* have been dropped
Collect(st, dts, rq) ==
    [w \in Streamers |->
        IF /\ st[w].pc = "exited"
           /\ \A d \in DOMAIN dts : dts[d].thread # w
           /\ \A c \in Clients : \A d \in DOMAIN rq[c].snap :
                 rq[c].snap[d] # w
        THEN NoStreamer
        ELSE st[w]]

\* the capture Thread objects become st
Threads(st) == streamers' = Collect(st, device_threads', requests')

\* list(self.device_threads): the keys in insertion order, which is the
\* order in which the entries were created
RECURSIVE keys(_)
keys(dts) ==
    IF DOMAIN dts = {}
    THEN <<>>
    ELSE LET d == CHOOSE d \in DOMAIN dts :
                     \A e \in DOMAIN dts : dts[d].seq <= dts[e].seq
         IN  <<d>> \o keys([e \in DOMAIN dts \ {d} |-> dts[e]])

\* Thread objects that the start calls in flight may still create
RECURSIVE Reserved(_)
Reserved(cs) ==
    IF cs = {}
    THEN 0
    ELSE LET c == CHOOSE c \in cs : TRUE
         IN  (IF requests[c].op = "start"
              THEN Cardinality(Range(requests[c].devices)) ELSE 0)
             + Reserved(cs \ {c})

\* Camera.start line 193: self.mutex.acquire().  A new call takes the lowest
\* free client slot, and is made only while Thread objects are left for it
\* within MaxStreams
start(c, devices) ==
    /\ requests[c].op = "idle"
    /\ \A k \in Clients : k < c => requests[k].op # "idle"
    /\ ~mutex
    /\ Cardinality({w \in Streamers : streamers[w].pc # "none"})
          + Reserved(Clients) + Cardinality(Range(devices)) <= MaxStreams
    /\ requests' = [requests EXCEPT ![c] =
          [op |-> "start", pc |-> "start_cs", devices |-> devices,
           i |-> 0, snap |-> <<>>, n |-> 0, arg |-> devices]]
    /\ mutex' = TRUE
    /\ cret' = NoResult
    /\ UNCHANGED <<device_threads, streamers>>

\* the loop of Camera.start without the test of line 197: every listed
\* device gets a new entry and a new thread
RECURSIVE start_loop_unchecked(_, _, _, _)
start_loop_unchecked(dts, st, n, devices) ==
    IF devices = <<>> \/ \A w \in Streamers : st[w].pc # "none"
    THEN [dts |-> dts, st |-> st, n |-> n]
    ELSE LET device == Head(devices)
             w == CHOOSE w \in Streamers :
                     /\ st[w].pc = "none"
                     /\ \A v \in Streamers : st[v].pc = "none" => w <= v
             entry == [id |-> w, thread |-> w, alive |-> TRUE, frames |-> 0,
                       seq |-> Cardinality(DOMAIN dts \ {device})]
         IN  start_loop_unchecked(
                [d \in DOMAIN dts \cup {device} |->
                    IF d = device THEN entry ELSE dts[d]],
                [st EXCEPT ![w] = [dev |-> device, pc |-> "open",
                                   opened |-> FALSE]],
                n + 1, Tail(devices))

\* Camera.start lines 196-208: the loop over devices.  The stream id is a
\* fresh random token, modelled by the number of the entry's Thread object;
\* seq is the position of the entry in the dictionary's insertion order
RECURSIVE start_loop(_, _, _, _)
start_loop(dts, st, n, devices) ==
    IF devices = <<>>
    THEN [dts |-> dts, st |-> st, n |-> n]
    ELSE LET device == Head(devices)
             w == CHOOSE w \in Streamers :
                     /\ st[w].pc = "none"
                     /\ \A v \in Streamers : st[v].pc = "none" => w <= v
         IN  IF device \notin DOMAIN dts
             THEN start_loop(
                    dts @@ (device :> [id |-> w, thread |-> w,
                                       alive |-> TRUE, frames |-> 0,
                                       seq |-> Cardinality(DOMAIN dts)]),
                    [st EXCEPT ![w] = [dev |-> device, pc |-> "open",
                                       opened |-> FALSE]],
                    n + 1, Tail(devices))
             ELSE start_loop(dts, st, n, Tail(devices))

\* Camera.start lines 195-209: the loop, then self.mutex.release(), which
\* raises RuntimeError when the Lock is not locked
start_body(c) ==
    /\ requests[c].pc = "start_cs"
    /\ requests' = [requests EXCEPT ![c] = NoCall]
    /\ mutex' = FALSE
    /\ LET r == start_loop(device_threads, streamers, 0, requests[c].devices)
       IN  /\ cret' = Result(c, IF mutex THEN "ok" ELSE "RuntimeError", r.n)
           /\ device_threads' = r.dts
           /\ Threads(r.st)

\* Camera.start lines 195-206 when Thread.start() (line 206) raises
\* RuntimeError ("can't start new thread") for the k-th device of the list:
\* the devices before it have been processed, its own entry has been
\* created, and the exception leaves start, which has no handler, before
\* the remaining devices and before the release of line 209
start_fail(c) ==
    /\ requests[c].pc = "start_cs"
    /\ \E k \in 1..Len(requests[c].devices) :
          LET r == start_loop(device_threads, streamers, 0,
                              SubSeq(requests[c].devices, 1, k - 1))
              device == requests[c].devices[k]
              w == CHOOSE w \in Streamers :
                      /\ r.st[w].pc = "none"
                      /\ \A v \in Streamers : r.st[v].pc = "none" => w <= v
          IN  /\ device \notin DOMAIN r.dts
              /\ device_threads' =
                    r.dts @@ (device :> [id |-> w, thread |-> w,
                                         alive |-> TRUE, frames |-> 0,
                                         seq |-> Cardinality(DOMAIN r.dts)])
              /\ cret' = Result(c, "RuntimeError", r.n)
              /\ requests' = [requests EXCEPT ![c] = NoCall]
              /\ Threads([r.st EXCEPT ![w] = Unstarted])
    /\ UNCHANGED mutex

\* Camera.stop line 218: self.mutex.acquire()
stop(c, devices) ==
    /\ requests[c].op = "idle"
    /\ \A k \in Clients : k < c => requests[k].op # "idle"
    /\ ~mutex
    /\ requests' = [requests EXCEPT ![c] =
          [op |-> "stop", pc |-> "signal_cs", devices |-> devices,
           i |-> 0, snap |-> <<>>, n |-> 0, arg |-> devices]]
    /\ mutex' = TRUE
    /\ cret' = NoResult
    /\ UNCHANGED <<device_threads, streamers>>

\* Camera.stop lines 233-234: the next device of the list, from position i
\* on, that is in the copy of the registry
RECURSIVE next_join(_, _, _)
next_join(devices, snap, i) ==
    IF i > Len(devices) \/ devices[i] \in DOMAIN snap
    THEN i
    ELSE next_join(devices, snap, i + 1)

\* Camera.stop lines 233-239: after a release, go on to the device at
\* position j of the list, or return
stop_next(c, devices, snap, j) ==
    IF ~mutex
    THEN /\ requests' = [requests EXCEPT ![c] = NoCall]
         /\ cret' = Result(c, "RuntimeError", requests[c].n)
    ELSE IF j > Len(devices)
    THEN /\ requests' = [requests EXCEPT ![c] = NoCall]
         /\ cret' = [Result(c, "ok", requests[c].n) EXCEPT
                        !.devices = devices]
    ELSE /\ requests' = [requests EXCEPT ![c] =
                [op |-> "stop", pc |-> "join", devices |-> devices,
                 i |-> j, snap |-> snap, n |-> requests[c].n,
                 arg |-> requests[c].arg]]
         /\ cret' = NoResult

\* the entries of dts that remain when device is deleted, in their order
Delete(dts, device) ==
    [d \in DOMAIN dts \ {device} |->
        [dts[d] EXCEPT !.seq =
            Cardinality({e \in DOMAIN dts \ {device} :
                            dts[e].seq < dts[d].seq})]]

\* Camera.stop taking its list of devices as it is
stop_devices_as_given(dts, devices) == devices

\* Camera.stop lines 220-221: when no devices are provided, all devices
stop_devices(dts, devices) ==
    IF devices = <<>> THEN keys(dts) ELSE devices

\* Camera.stop lines 220-231: signal the devices, copy the registry, release.
\* Of the copy only the threads of the listed devices are read afterwards
stop_signal(c) ==
    /\ requests[c].pc = "signal_cs"
    /\ LET devices == stop_devices(device_threads, requests[c].devices)
           snap    == [d \in DOMAIN device_threads \cap Range(devices) |->
                          device_threads[d].thread]
       IN  /\ device_threads' =
                 [d \in DOMAIN device_threads |->
                     IF d \in Range(devices)
                     THEN [device_threads[d] EXCEPT !.alive = FALSE]
                     ELSE device_threads[d]]
           /\ stop_next(c, devices, snap, next_join(devices, snap, 1))
    /\ mutex' = FALSE
    /\ Threads(streamers)

\* Camera.stop lines 235-236: threads[device][THREAD].join(), then
\* self.mutex.acquire().  join() raises RuntimeError for a Thread object
\* that was never started
stop_join(c) ==
    /\ requests[c].pc = "join"
    /\ LET t == requests[c].snap[requests[c].devices[requests[c].i]] IN
       IF streamers[t].pc = "unstarted"
       THEN /\ requests' = [requests EXCEPT ![c] = NoCall]
            /\ cret' = Result(c, "RuntimeError", requests[c].n)
            /\ UNCHANGED <<mutex, device_threads>>
            /\ Threads(streamers)
       ELSE /\ streamers[t].pc = "exited"
            /\ ~mutex
            /\ mutex' = TRUE
            /\ requests' = [requests EXCEPT ![c].pc = "remove_cs",
                                            ![c].n = @ + 1]
            /\ cret' = NoResult
            /\ UNCHANGED <<device_threads, streamers>>

\* Camera.stop lines 237-239: remove the device if it has an entry, release
stop_remove(c) ==
    /\ requests[c].pc = "remove_cs"
    /\ device_threads' = Delete(device_threads,
                                requests[c].devices[requests[c].i])
    /\ stop_next(c, requests[c].devices, requests[c].snap,
                 next_join(requests[c].devices, requests[c].snap,
                           requests[c].i + 1))
    /\ mutex' = FALSE
    /\ Threads(streamers)

\* the capture worker goes to pc
Goto(w, pc) == Threads([streamers EXCEPT ![w].pc = pc])

\* the capture worker has executed its last statement on the registry and
\* the mutex: what is left is the log message and the end of the thread
Exit(w) == Threads([streamers EXCEPT ![w] =
               [@ EXCEPT !.pc = "exiting", !.opened = FALSE]])

\* an exception inside a critical section of the capture worker: KeyError
\* when the device has no entry, RuntimeError from release() when the Lock
\* is not locked
Raises(w) == streamers[w].dev \notin DOMAIN device_threads \/ ~mutex

\* Camera.is_alive line 81: self.mutex.acquire(), called from line 104
\* (the first time after cv2.VideoCapture(device), line 101, which opens
\* the device or not) and from line 135
streamer_is_alive(w) ==
    /\ streamers[w].pc \in {"open", "loop", "closed"}
    /\ ~mutex
    /\ mutex' = TRUE
    /\ cret' = NoResult
    /\ UNCHANGED <<device_threads, requests>>
    /\ \E opened \in BOOLEAN :
          /\ streamers[w].pc # "open" => opened = streamers[w].opened
          /\ Threads([streamers EXCEPT ![w] =
                [@ EXCEPT !.opened = opened,
                          !.pc = IF @ = "closed" THEN "alive_closed"
                                                 ELSE "alive_loop"]])

\* Camera.is_alive lines 82-83 called from line 104, then lines 104-119:
\* the loop condition, cap.read() and the encoding of the frame.  The
\* device delivers a frame only while the queue holds fewer than cap frames
streamer_capture(w, cap) ==
    /\ streamers[w].pc = "alive_loop"
    /\ cret' = NoResult
    /\ UNCHANGED <<device_threads, requests>>
    /\ IF Raises(w)
       THEN /\ UNCHANGED mutex
            /\ Goto(w, "except")
       ELSE /\ mutex' = FALSE
            /\ IF device_threads[streamers[w].dev].alive /\ streamers[w].opened
               THEN \E r \in {"frame", "none", "closed", "raise"} :
                       /\ r = "frame" =>
                             device_threads[streamers[w].dev].frames < cap
                       /\ Threads([streamers EXCEPT ![w] =
                             CASE r = "frame"  -> [@ EXCEPT !.pc = "publish"]
                               [] r = "none"   -> [@ EXCEPT !.pc = "loop"]
                               [] r = "closed" ->
                                    [@ EXCEPT !.pc = "loop",
                                              !.opened = FALSE]
                               [] r = "raise"  -> [@ EXCEPT !.pc = "except"]])
               ELSE Threads([streamers EXCEPT ![w] =
                       [@ EXCEPT !.pc = "closed", !.opened = FALSE]])

\* the capture loop of a worker whose frames nobody consumes: the device
\* delivers MaxFrames frames
streamer_loop(w) == streamer_capture(w, MaxFrames)

\* line 120: self.mutex.acquire()
streamer_publish(w) ==
    /\ streamers[w].pc = "publish"
    /\ ~mutex
    /\ mutex' = TRUE
    /\ cret' = NoResult
    /\ UNCHANGED <<device_threads, requests>>
    /\ Goto(w, "publish_cs")

\* cond.notifyAll() on the condition of the entry of Thread object t: the
\* read_frame calls that wait on it go on
notifyAll(t) ==
    [c \in Clients |->
        IF /\ requests[c].op = "read" /\ requests[c].pc = "wait"
           /\ \E d \in DOMAIN requests[c].snap : requests[c].snap[d] = t
        THEN [requests[c] EXCEPT !.pc = "drain"]
        ELSE requests[c]]

\* lines 121-127 without the test of line 125: the frame is put whatever the
\* queue holds
streamer_put_unbounded(w) ==
    /\ streamers[w].pc = "publish_cs"
    /\ cret' = NoResult
    /\ IF Raises(w)
       THEN /\ UNCHANGED <<mutex, device_threads, requests>>
            /\ Goto(w, "except")
       ELSE /\ mutex' = FALSE
            /\ device_threads' =
                  [device_threads EXCEPT ![streamers[w].dev].frames = @ + 1]
            /\ requests' =
                  notifyAll(device_threads[streamers[w].dev].thread)
            /\ Goto(w, "loop")

\* lines 121-127: look up the queue and the condition of the device's
\* entry, release, then, unless the queue is full, put the frame and
\* notify the waiting consumers
streamer_put(w) ==
    /\ streamers[w].pc = "publish_cs"
    /\ cret' = NoResult
    /\ IF Raises(w)
       THEN /\ UNCHANGED <<mutex, device_threads, requests>>
            /\ Goto(w, "except")
       ELSE /\ mutex' = FALSE
            /\ device_threads' =
                  [device_threads EXCEPT ![streamers[w].dev].frames =
                      IF @ < BUFF_SIZE THEN @ + 1 ELSE @]
            /\ requests' =
                  IF device_threads[streamers[w].dev].frames < BUFF_SIZE
                  THEN notifyAll(device_threads[streamers[w].dev].thread)
                  ELSE requests
            /\ Goto(w, "loop")

\* Camera.is_alive lines 82-83 called from line 135, then time.sleep(1)
streamer_closed(w) ==
    /\ streamers[w].pc = "alive_closed"
    /\ cret' = NoResult
    /\ UNCHANGED <<device_threads, requests>>
    /\ IF Raises(w)
       THEN /\ UNCHANGED mutex
            /\ Goto(w, "except")
       ELSE /\ mutex' = FALSE
            /\ IF device_threads[streamers[w].dev].alive
               THEN Goto(w, "remove")
               ELSE Exit(w)

\* line 137: self.mutex.acquire()
streamer_acquire(w) ==
    /\ streamers[w].pc = "remove"
    /\ ~mutex
    /\ mutex' = TRUE
    /\ cret' = NoResult
    /\ UNCHANGED <<device_threads, requests>>
    /\ Goto(w, "remove_cs")

\* lines 138-140: del self.device_threads[device], release
streamer_remove(w) ==
    /\ streamers[w].pc = "remove_cs"
    /\ cret' = NoResult
    /\ UNCHANGED requests
    /\ IF streamers[w].dev \notin DOMAIN device_threads
       THEN /\ UNCHANGED <<mutex, device_threads>>
            /\ Goto(w, "except")
       ELSE /\ device_threads' = Delete(device_threads, streamers[w].dev)
            /\ IF mutex
               THEN /\ mutex' = FALSE
                    /\ Exit(w)
               ELSE /\ UNCHANGED mutex
                    /\ Goto(w, "except")

\* lines 141-147: the exception handler releases the mutex if it is locked
streamer_except(w) ==
    /\ streamers[w].pc = "except"
    /\ mutex' = FALSE
    /\ cret' = NoResult
    /\ UNCHANGED <<device_threads, requests>>
    /\ Exit(w)

\* lines 140 and 146-147: the thread ends, which is what join() waits for
streamer_exit(w) ==
    /\ streamers[w].pc = "exiting"
    /\ cret' = NoResult
    /\ UNCHANGED <<device_threads, mutex, requests>>
    /\ Threads([streamers EXCEPT ![w] = Exited])

streamer_thread(w) ==
    \/ streamer_is_alive(w)
    \/ streamer_loop(w)
    \/ streamer_publish(w)
    \/ streamer_put(w)
    \/ streamer_closed(w)
    \/ streamer_acquire(w)
    \/ streamer_remove(w)
    \/ streamer_except(w)
    \/ streamer_exit(w)

(***************************************************************************)
(* Camera.get_status                                                       *)
(***************************************************************************)
\* Camera.get_status line 251: self.mutex.acquire()
get_status(c, devices) ==
    /\ requests[c].op = "idle"
    /\ \A k \in Clients : k < c => requests[k].op # "idle"
    /\ ~mutex
    /\ requests' = [requests EXCEPT ![c] =
          [op |-> "status", pc |-> "status_cs", devices |-> devices,
           i |-> 0, snap |-> <<>>, n |-> 0, arg |-> devices]]
    /\ mutex' = TRUE
    /\ cret' = NoResult
    /\ UNCHANGED <<device_threads, streamers>>

\* what get_status reports for a registered device
running_status(dts, device) ==
    [status |-> "Running", stream_id |-> dts[device].id]

\* get_status reporting every requested device as running
camera_status_all(dts, devices) ==
    [device \in Range(devices) |->
        [status |-> "Running",
         stream_id |-> IF device \in DOMAIN dts THEN dts[device].id ELSE 0]]

\* lines 250-266: the dictionary camera_status built from the registry dts
camera_status(dts, devices) ==
    IF devices = <<>>
    THEN [device \in DOMAIN dts |-> running_status(dts, device)]
    ELSE [device \in Range(devices) |->
             IF device \in DOMAIN dts
             THEN running_status(dts, device)
             ELSE [status |-> "Not Running"]]

\* lines 252-268: build the dictionary, release, return it
get_status_body(c) ==
    /\ requests[c].op = "status" /\ requests[c].pc = "status_cs"
    /\ requests' = [requests EXCEPT ![c] = NoCall]
    /\ mutex' = FALSE
    /\ cret' = IF mutex
               THEN [Result(c, "ok", 0) EXCEPT
                       !.status = camera_status(device_threads,
                                                requests[c].devices)]
               ELSE Result(c, "RuntimeError", 0)
    /\ UNCHANGED device_threads
    /\ Threads(streamers)

(***************************************************************************)
(* Camera.read_frame, the generator behind a feed: a call in a client slot *)
(* with op "read".  Its local variables are kept in the slot: i is 1 while *)
(* the local alive is True, snap refers to the queue and the condition it  *)
(* holds by the Thread object of their entry, n is 1 when the last round   *)
(* has yielded frames.                                                     *)
(***************************************************************************)
\* the generator of client c ends: it is exhausted ("ok") or it raises
read_return(c, res) ==
    /\ requests' = [requests EXCEPT ![c] = NoCall]
    /\ cret' = Result(c, res, requests[c].n)

\* line 159: self.mutex.acquire()
read_frame(c, device) ==
    /\ requests[c].op = "idle"
    /\ \A k \in Clients : k < c => requests[k].op # "idle"
    /\ ~mutex
    /\ requests' = [requests EXCEPT ![c] =
          [op |-> "read", pc |-> "check_cs", devices |-> <<device>>,
           i |-> 0, snap |-> <<>>, n |-> 0, arg |-> <<device>>]]
    /\ mutex' = TRUE
    /\ cret' = NoResult
    /\ UNCHANGED <<device_threads, streamers>>

\* lines 160-163 with alive = True whatever the registry holds
read_check_enters(c) ==
    /\ requests[c].op = "read" /\ requests[c].pc = "check_cs"
    /\ mutex' = FALSE
    /\ IF ~mutex
       THEN read_return(c, "RuntimeError")
       ELSE /\ requests' = [requests EXCEPT ![c].pc = "top", ![c].i = 1]
            /\ cret' = NoResult
    /\ UNCHANGED device_threads
    /\ Threads(streamers)

\* lines 160-163: alive = device in self.device_threads, release
read_check(c) ==
    /\ requests[c].op = "read" /\ requests[c].pc = "check_cs"
    /\ mutex' = FALSE
    /\ IF ~mutex
       THEN read_return(c, "RuntimeError")
       ELSE IF requests[c].devices[1] \in DOMAIN device_threads
       THEN /\ requests' = [requests EXCEPT ![c].pc = "top", ![c].i = 1]
            /\ cret' = NoResult
       ELSE read_return(c, "ok")
    /\ UNCHANGED device_threads
    /\ Threads(streamers)

\* line 164: self.mutex.acquire()
read_acquire(c) ==
    /\ requests[c].op = "read" /\ requests[c].pc = "top"
    /\ ~mutex
    /\ mutex' = TRUE
    /\ requests' = [requests EXCEPT ![c].pc = "top_cs"]
    /\ cret' = NoResult
    /\ UNCHANGED <<device_threads, streamers>>

\* lines 166-177 with the release of line 170 after the wait instead of
\* before it
read_top_locked(c) ==
    /\ requests[c].op = "read" /\ requests[c].pc = "top_cs"
    /\ LET device == requests[c].devices[1] IN
       IF ~mutex
       THEN /\ read_return(c, "RuntimeError")
            /\ mutex' = FALSE
       ELSE IF device \in DOMAIN device_threads
       THEN /\ requests' = [requests EXCEPT ![c] =
                  [@ EXCEPT !.pc = "wait",
                            !.i = IF device_threads[device].alive THEN 1 ELSE 0,
                            !.snap = device :> device_threads[device].thread,
                            !.n = 0]]
            /\ cret' = NoResult
            /\ mutex' = TRUE
       ELSE /\ read_return(c, "ok")
            /\ mutex' = FALSE
    /\ UNCHANGED device_threads
    /\ Threads(streamers)

\* lines 166-172 and 175-177: with an entry, read its alive flag, its queue
\* and its condition, release and wait on the condition; without one,
\* release and leave the loop
read_top(c) ==
    /\ requests[c].op = "read" /\ requests[c].pc = "top_cs"
    /\ mutex' = FALSE
    /\ LET device == requests[c].devices[1] IN
       IF ~mutex
       THEN read_return(c, "RuntimeError")
       ELSE IF device \in DOMAIN device_threads
       THEN /\ requests' = [requests EXCEPT ![c] =
                  [@ EXCEPT !.pc = "wait",
                            !.i = IF device_threads[device].alive THEN 1 ELSE 0,
                            !.snap = device :> device_threads[device].thread,
                            !.n = 0]]
            /\ cret' = NoResult
       ELSE read_return(c, "ok")
    /\ UNCHANGED device_threads
    /\ Threads(streamers)

\* after the frames have been yielded, or when there are none: go round
\* the loop of line 163 while the local alive is True
read_loop(c, n) ==
    IF requests[c].i = 1
    THEN /\ requests' = [requests EXCEPT ![c].pc = "top", ![c].n = n]
         /\ cret' = NoResult
    ELSE /\ requests' = [requests EXCEPT ![c] = NoCall]
         /\ cret' = Result(c, "ok", n)

\* lines 173-178, after cond.wait() has returned: empty the queue; with
\* frames the generator is suspended in the yield of line 180.  The queue
\* of an entry that has left the registry holds frames or not
read_drain(c) ==
    /\ requests[c].op = "read" /\ requests[c].pc = "drain"
    /\ LET device == requests[c].devices[1]
           live   == /\ device \in DOMAIN device_threads
                     /\ device_threads[device].thread = requests[c].snap[device]
       IN  \E orphan \in {0, 1} :
              LET got == IF live THEN device_threads[device].frames ELSE orphan
                  n   == IF got > 0 THEN 1 ELSE 0
              IN  /\ live => orphan = 0
                  /\ device_threads' =
                        IF live
                        THEN [device_threads EXCEPT ![device].frames = 0]
                        ELSE device_threads
                  /\ IF got > 0
                     THEN /\ requests' = [requests EXCEPT ![c].pc = "yield",
                                                          ![c].n = n]
                          /\ cret' = NoResult
                     ELSE read_loop(c, n)
    /\ UNCHANGED mutex
    /\ Threads(streamers)

\* lines 179-181: the consumer of the feed has taken the frames yielded and
\* asks for the next one
read_next(c) ==
    /\ requests[c].op = "read" /\ requests[c].pc = "yield"
    /\ read_loop(c, requests[c].n)
    /\ UNCHANGED <<device_threads, mutex>>
    /\ Threads(streamers)

\* a consumer whose disconnection stops the camera it was watching
read_close_stops(c) ==
    /\ requests[c].op = "read" /\ requests[c].pc = "yield"
    /\ requests' = [requests EXCEPT ![c] = NoCall]
    /\ cret' = Result(c, "closed", requests[c].n)
    /\ device_threads' =
          [d \in DOMAIN device_threads |->
              IF d = requests[c].devices[1]
              THEN [device_threads[d] EXCEPT !.alive = FALSE]
              ELSE device_threads[d]]
    /\ UNCHANGED mutex
    /\ Threads(streamers)

\* line 180: the consumer of the feed has gone and the generator is closed
\* while it is suspended in the yield: GeneratorExit is raised there, where
\* no lock is held, and ends the generator
read_close(c) ==
    /\ requests[c].op = "read" /\ requests[c].pc = "yield"
    /\ requests' = [requests EXCEPT ![c] = NoCall]
    /\ cret' = Result(c, "closed", requests[c].n)
    /\ UNCHANGED <<device_threads, mutex>>
    /\ Threads(streamers)

\* Camera.start lines 195-209 with the queue.Queue objects of line 202:
\* the entry of a new Thread object gets an empty queue.  A Thread object
\* is created only when no worker still holds the queue of one that has gone
start_queues(c) ==
    /\ \A w \in Streamers :
          feed.held[w] # 0 => streamers[feed.held[w]].pc # "none"
    /\ start_body(c)
    /\ feed' = [feed EXCEPT !.queue =
          [t \in Streamers |->
              IF streamers[t].pc = "none" THEN <<>> ELSE feed.queue[t]]]

\* lines 104-119 for a device that delivers MaxPublished frames in all,
\* or closes: cap.read() returns a frame each time, and nothing raises
\* but the registry and the Lock
streamer_frame(w) ==
    /\ streamer_capture(w, BUFF_SIZE + 1)
    /\ streamers'[w].pc = "except" => Raises(w)
    /\ streamers'[w].pc = "loop" => ~streamers'[w].opened
    /\ streamers'[w].pc = "publish" =>
          feed.published
             + Cardinality({v \in Streamers :
                  streamers[v].pc \in {"publish", "publish_cs", "put"}})
             < MaxPublished
    /\ UNCHANGED feed

\* lines 121-123: look up the queue and the condition of the entry the
\* device has now, release
streamer_lookup(w) ==
    /\ streamers[w].pc = "publish_cs"
    /\ cret' = NoResult
    /\ UNCHANGED <<device_threads, requests>>
    /\ IF Raises(w)
       THEN /\ UNCHANGED <<mutex, feed>>
            /\ Goto(w, "except")
       ELSE /\ mutex' = FALSE
            /\ feed' = [feed EXCEPT !.held[w] =
                           device_threads[streamers[w].dev].thread]
            /\ Goto(w, "put")

\* the number of frames in the queue of the entry of Thread object t
Queued(dts, t, n) ==
    [d \in DOMAIN dts |->
        IF dts[d].thread = t THEN [dts[d] EXCEPT !.frames = n] ELSE dts[d]]

\* lines 124-127: with cond, unless the queue looked up is full, put the
\* frame and notify the consumers waiting on the condition looked up.
\* Frames are numbered in the order in which they are put
streamer_put_frame(w) ==
    /\ streamers[w].pc = "put"
    /\ cret' = NoResult
    /\ UNCHANGED mutex
    /\ LET t == feed.held[w]
           q == feed.queue[t]
       IN  IF Len(q) < BUFF_SIZE
           THEN /\ feed' = [feed EXCEPT !.held[w] = 0,
                                        !.queue[t] = Append(q, feed.published + 1),
                                        !.published = @ + 1]
                /\ device_threads' = Queued(device_threads, t, Len(q) + 1)
                /\ requests' = notifyAll(t)
           ELSE /\ feed' = [feed EXCEPT !.held[w] = 0]
                /\ UNCHANGED <<device_threads, requests>>
    /\ Goto(w, "loop")

\* line 159 for a new feed: nothing has been yielded yet
read_frames(c, device) ==
    /\ read_frame(c, device)
    /\ feed' = [feed EXCEPT !.yielded[c] = <<>>]

\* lines 173-181, after cond.wait() has returned: move the frames of the
\* queue looked up to the local list, in the order of queue.get(), and
\* yield them in that order
read_drain_frames(c) ==
    /\ requests[c].op = "read" /\ requests[c].pc = "drain"
    /\ LET t == requests[c].snap[requests[c].devices[1]]
           q == feed.queue[t]
       IN  /\ feed' = [feed EXCEPT !.queue[t] = <<>>,
                                   !.yielded[c] = @ \o q]
           /\ device_threads' = Queued(device_threads, t, 0)
           /\ IF q # <<>>
              THEN /\ requests' = [requests EXCEPT ![c].pc = "yield",
                                                   ![c].n = 1]
                   /\ cret' = NoResult
              ELSE read_loop(c, 0)
    /\ UNCHANGED mutex
    /\ Threads(streamers)

\* the capture worker with the frames it publishes
streamer_frames(w) ==
    \/ streamer_is_alive(w) /\ UNCHANGED feed
    \/ streamer_frame(w)
    \/ streamer_publish(w) /\ UNCHANGED feed
    \/ streamer_lookup(w)
    \/ streamer_put_frame(w)
    \/ streamer_closed(w) /\ UNCHANGED feed
    \/ streamer_acquire(w) /\ UNCHANGED feed
    \/ streamer_remove(w) /\ UNCHANGED feed
    \/ streamer_except(w) /\ UNCHANGED feed
    \/ streamer_exit(w) /\ UNCHANGED feed

\* the capture worker of a device whose feed is consumed: the device goes
\* on delivering frames whatever the queue holds
streamer_feed(w) ==
    \/ streamer_is_alive(w)
    \/ streamer_capture(w, BUFF_SIZE + 1)
    \/ streamer_publish(w)
    \/ streamer_put(w)
    \/ streamer_closed(w)
    \/ streamer_acquire(w)
    \/ streamer_remove(w)
    \/ streamer_except(w)
    \/ streamer_exit(w)

(***************************************************************************)
(* The camera service: start / stop calls and capture workers              *)
(***************************************************************************)
\* concurrent start / stop calls for one device
NextCamera ==
    \/ \E c \in Clients, devices \in OneDevice :
          start(c, devices) /\ UNCHANGED <<tvars, owner, feed, poll>>
    \/ \E c \in Clients : start_body(c) /\ UNCHANGED <<tvars, owner, feed, poll>>
    \/ \E c \in Clients, devices \in OneDevice :
          stop(c, devices) /\ UNCHANGED <<tvars, owner, feed, poll>>
    \/ \E c \in Clients : stop_signal(c) /\ UNCHANGED <<tvars, owner, feed, poll>>
    \/ \E c \in Clients : stop_join(c) /\ UNCHANGED <<tvars, owner, feed, poll>>
    \/ \E c \in Clients : stop_remove(c) /\ UNCHANGED <<tvars, owner, feed, poll>>
    \/ \E w \in Streamers : streamer_thread(w) /\ UNCHANGED <<tvars, owner, feed, poll>>

\* no camera call is in flight
NoCameraCall == \A c \in Clients : requests[c].op = "idle"

\* a single camera client: it calls start or stop, always for the same
\* device, only after its previous call has returned; the capture workers
\* run on in between
NextCameraSeq ==
    \/ /\ NoCameraCall /\ UNCHANGED <<tvars, owner, feed, poll>>
       /\ \E c \in Clients, devices \in OneDevice : start(c, devices)
    \/ \E c \in Clients : start_body(c) /\ UNCHANGED <<tvars, owner, feed, poll>>
    \/ /\ NoCameraCall /\ UNCHANGED <<tvars, owner, feed, poll>>
       /\ \E c \in Clients, devices \in OneDevice : stop(c, devices)
    \/ \E c \in Clients : stop_signal(c) /\ UNCHANGED <<tvars, owner, feed, poll>>
    \/ \E c \in Clients : stop_join(c) /\ UNCHANGED <<tvars, owner, feed, poll>>
    \/ \E c \in Clients : stop_remove(c) /\ UNCHANGED <<tvars, owner, feed, poll>>
    \/ \E w \in Streamers : streamer_thread(w) /\ UNCHANGED <<tvars, owner, feed, poll>>

\* a single camera client that calls start or stop for any list of the two
\* devices, one call after the other, and the capture workers
NextCameraTwo ==
    \/ /\ NoCameraCall /\ UNCHANGED <<tvars, owner, feed, poll>>
       /\ \E c \in Clients, devices \in DeviceArgs(Devices) : start(c, devices)
    \/ \E c \in Clients : start_body(c) /\ UNCHANGED <<tvars, owner, feed, poll>>
    \/ /\ NoCameraCall /\ UNCHANGED <<tvars, owner, feed, poll>>
       /\ \E c \in Clients, devices \in DeviceArgs(Devices) : stop(c, devices)
    \/ \E c \in Clients : stop_signal(c) /\ UNCHANGED <<tvars, owner, feed, poll>>
    \/ \E c \in Clients : stop_join(c) /\ UNCHANGED <<tvars, owner, feed, poll>>
    \/ \E c \in Clients : stop_remove(c) /\ UNCHANGED <<tvars, owner, feed, poll>>
    \/ \E w \in Streamers : streamer_thread(w) /\ UNCHANGED <<tvars, owner, feed, poll>>

\* a single camera client that calls start and stop for one device and
\* get_status for any list of the two devices, one call after the other,
\* and the capture workers
NextStatus ==
    \/ /\ NoCameraCall /\ UNCHANGED <<tvars, owner, feed, poll>>
       /\ \E c \in Clients, devices \in OneDevice : start(c, devices)
    \/ \E c \in Clients : start_body(c) /\ UNCHANGED <<tvars, owner, feed, poll>>
    \/ /\ NoCameraCall /\ UNCHANGED <<tvars, owner, feed, poll>>
       /\ \E c \in Clients, devices \in OneDevice : stop(c, devices)
    \/ \E c \in Clients : stop_signal(c) /\ UNCHANGED <<tvars, owner, feed, poll>>
    \/ \E c \in Clients : stop_join(c) /\ UNCHANGED <<tvars, owner, feed, poll>>
    \/ \E c \in Clients : stop_remove(c) /\ UNCHANGED <<tvars, owner, feed, poll>>
    \/ /\ NoCameraCall /\ UNCHANGED <<tvars, owner, feed, poll>>
       /\ \E c \in Clients, devices \in DeviceArgs(Devices) :
             get_status(c, devices)
    \/ \E c \in Clients : get_status_body(c) /\ UNCHANGED <<tvars, owner, feed, poll>>
    \/ \E w \in Streamers : streamer_thread(w) /\ UNCHANGED <<tvars, owner, feed, poll>>

\* a single camera client that calls start or stop for one device, one call
\* after the other, and capture workers that go on delivering frames which
\* nobody consumes
NextQueue ==
    \/ /\ NoCameraCall /\ UNCHANGED <<tvars, owner, feed, poll>>
       /\ \E c \in Clients, devices \in OneDevice : start(c, devices)
    \/ \E c \in Clients : start_body(c) /\ UNCHANGED <<tvars, owner, feed, poll>>
    \/ /\ NoCameraCall /\ UNCHANGED <<tvars, owner, feed, poll>>
       /\ \E c \in Clients, devices \in OneDevice : stop(c, devices)
    \/ \E c \in Clients : stop_signal(c) /\ UNCHANGED <<tvars, owner, feed, poll>>
    \/ \E c \in Clients : stop_join(c) /\ UNCHANGED <<tvars, owner, feed, poll>>
    \/ \E c \in Clients : stop_remove(c) /\ UNCHANGED <<tvars, owner, feed, poll>>
    \/ \E w \in Streamers : streamer_feed(w) /\ UNCHANGED <<tvars, owner, feed, poll>>

\* as NextCameraTwo, in an environment where Thread.start() can fail
NextSpawn ==
    \/ /\ NoCameraCall /\ UNCHANGED <<tvars, owner, feed, poll>>
       /\ \E c \in Clients, devices \in DeviceArgs(Devices) : start(c, devices)
    \/ \E c \in Clients : start_body(c) /\ UNCHANGED <<tvars, owner, feed, poll>>
    \/ \E c \in Clients : start_fail(c) /\ UNCHANGED <<tvars, owner, feed, poll>>
    \/ /\ NoCameraCall /\ UNCHANGED <<tvars, owner, feed, poll>>
       /\ \E c \in Clients, devices \in DeviceArgs(Devices) : stop(c, devices)
    \/ \E c \in Clients : stop_signal(c) /\ UNCHANGED <<tvars, owner, feed, poll>>
    \/ \E c \in Clients : stop_join(c) /\ UNCHANGED <<tvars, owner, feed, poll>>
    \/ \E c \in Clients : stop_remove(c) /\ UNCHANGED <<tvars, owner, feed, poll>>
    \/ \E w \in Streamers : streamer_thread(w) /\ UNCHANGED <<tvars, owner, feed, poll>>

\* no call of camera operation op is in flight
NoCall_(op) == \A c \in Clients : requests[c].op # op

\* start, stop and read_frame calls for one device, where calls of
\* different operations overlap, and the capture workers with the frames
\* they publish
NextFrames ==
    \/ /\ NoCall_("start") /\ UNCHANGED <<tvars, owner, feed, poll>>
       /\ \E c \in Clients, devices \in OneDevice : start(c, devices)
    \/ \E c \in Clients : start_queues(c) /\ UNCHANGED <<tvars, owner, poll>>
    \/ /\ NoCall_("stop") /\ UNCHANGED <<tvars, owner, feed, poll>>
       /\ \E c \in Clients, devices \in OneDevice : stop(c, devices)
    \/ \E c \in Clients : stop_signal(c) /\ UNCHANGED <<tvars, owner, feed, poll>>
    \/ \E c \in Clients : stop_join(c) /\ UNCHANGED <<tvars, owner, feed, poll>>
    \/ \E c \in Clients : stop_remove(c) /\ UNCHANGED <<tvars, owner, feed, poll>>
    \/ /\ NoCall_("read") /\ UNCHANGED <<tvars, owner, poll>>
       /\ \E c \in Clients : read_frames(c, "/dev/video0")
    \/ \E c \in Clients : read_check(c) /\ UNCHANGED <<tvars, owner, feed, poll>>
    \/ \E c \in Clients : read_acquire(c) /\ UNCHANGED <<tvars, owner, feed, poll>>
    \/ \E c \in Clients : read_top(c) /\ UNCHANGED <<tvars, owner, feed, poll>>
    \/ \E c \in Clients : read_drain_frames(c) /\ UNCHANGED <<tvars, owner, poll>>
    \/ \E c \in Clients : read_next(c) /\ UNCHANGED <<tvars, owner, feed, poll>>
    \/ \E c \in Clients : read_close(c) /\ UNCHANGED <<tvars, owner, feed, poll>>
    \/ \E w \in Streamers : streamer_frames(w) /\ UNCHANGED <<tvars, owner, poll>>

\* no start or stop call is in flight
NoControlCall == \A c \in Clients : requests[c].op \in {"idle", "read"}

\* a camera client that calls start or stop for one device, one call after
\* the other, the feed consumers of that device and the capture workers
NextFeed ==
    \/ /\ NoControlCall /\ UNCHANGED <<tvars, owner, feed, poll>>
       /\ \E c \in Clients, devices \in OneDevice : start(c, devices)
    \/ \E c \in Clients : start_body(c) /\ UNCHANGED <<tvars, owner, feed, poll>>
    \/ /\ NoControlCall /\ UNCHANGED <<tvars, owner, feed, poll>>
       /\ \E c \in Clients, devices \in OneDevice : stop(c, devices)
    \/ \E c \in Clients : stop_signal(c) /\ UNCHANGED <<tvars, owner, feed, poll>>
    \/ \E c \in Clients : stop_join(c) /\ UNCHANGED <<tvars, owner, feed, poll>>
    \/ \E c \in Clients : stop_remove(c) /\ UNCHANGED <<tvars, owner, feed, poll>>
    \/ \E c \in Clients :
          read_frame(c, "/dev/video0") /\ UNCHANGED <<tvars, owner, feed, poll>>
    \/ \E c \in Clients : read_check(c) /\ UNCHANGED <<tvars, owner, feed, poll>>
    \/ \E c \in Clients : read_acquire(c) /\ UNCHANGED <<tvars, owner, feed, poll>>
    \/ \E c \in Clients : read_top(c) /\ UNCHANGED <<tvars, owner, feed, poll>>
    \/ \E c \in Clients : read_drain(c) /\ UNCHANGED <<tvars, owner, feed, poll>>
    \/ \E c \in Clients : read_next(c) /\ UNCHANGED <<tvars, owner, feed, poll>>
    \/ \E c \in Clients : read_close(c) /\ UNCHANGED <<tvars, owner, feed, poll>>
    \/ \E w \in Streamers : streamer_feed(w) /\ UNCHANGED <<tvars, owner, feed, poll>>

\* as NextFeed, with feeds opened for either device, of which only
\* /dev/video0 is ever started, and capture workers that deliver a frame
\* only while the queue holds fewer than MaxFrames
NextWatch ==
    \/ /\ NoControlCall /\ UNCHANGED <<tvars, owner, feed, poll>>
       /\ \E c \in Clients, devices \in OneDevice : start(c, devices)
    \/ \E c \in Clients : start_body(c) /\ UNCHANGED <<tvars, owner, feed, poll>>
    \/ /\ NoControlCall /\ UNCHANGED <<tvars, owner, feed, poll>>
       /\ \E c \in Clients, devices \in OneDevice : stop(c, devices)
    \/ \E c \in Clients : stop_signal(c) /\ UNCHANGED <<tvars, owner, feed, poll>>
    \/ \E c \in Clients : stop_join(c) /\ UNCHANGED <<tvars, owner, feed, poll>>
    \/ \E c \in Clients : stop_remove(c) /\ UNCHANGED <<tvars, owner, feed, poll>>
    \/ \E c \in Clients, device \in Devices :
          read_frame(c, device) /\ UNCHANGED <<tvars, owner, feed, poll>>
    \/ \E c \in Clients : read_check(c) /\ UNCHANGED <<tvars, owner, feed, poll>>
    \/ \E c \in Clients : read_acquire(c) /\ UNCHANGED <<tvars, owner, feed, poll>>
    \/ \E c \in Clients : read_top(c) /\ UNCHANGED <<tvars, owner, feed, poll>>
    \/ \E c \in Clients : read_drain(c) /\ UNCHANGED <<tvars, owner, feed, poll>>
    \/ \E c \in Clients : read_next(c) /\ UNCHANGED <<tvars, owner, feed, poll>>
    \/ \E c \in Clients : read_close(c) /\ UNCHANGED <<tvars, owner, feed, poll>>
    \/ \E w \in Streamers : streamer_thread(w) /\ UNCHANGED <<tvars, owner, feed, poll>>

\* thread t has returned from self.mutex.acquire()
Takes(t) == owner' = t

\* a step without acquire(): the Lock stays with the thread that locked it
\* for as long as it is locked
Keeps == owner' = IF mutex' THEN owner ELSE NoOwner

\* camera clients that call start, stop and get_status for one device, one
\* such call after the other, the feed consumers of that device and the
\* capture workers, with the thread that has locked the mutex
NextLocks ==
    \/ /\ NoControlCall /\ UNCHANGED <<tvars, feed, poll>>
       /\ \E c \in Clients, devices \in OneDevice :
             start(c, devices) /\ Takes(Client(c))
    \/ \E c \in Clients : start_body(c) /\ Keeps /\ UNCHANGED <<tvars, feed, poll>>
    \/ /\ NoControlCall /\ UNCHANGED <<tvars, feed, poll>>
       /\ \E c \in Clients, devices \in OneDevice :
             stop(c, devices) /\ Takes(Client(c))
    \/ \E c \in Clients : stop_signal(c) /\ Keeps /\ UNCHANGED <<tvars, feed, poll>>
    \/ \E c \in Clients :
          stop_join(c) /\ Takes(Client(c)) /\ UNCHANGED <<tvars, feed, poll>>
    \/ \E c \in Clients : stop_remove(c) /\ Keeps /\ UNCHANGED <<tvars, feed, poll>>
    \/ /\ NoControlCall /\ UNCHANGED <<tvars, feed, poll>>
       /\ \E c \in Clients, devices \in OneDevice :
             get_status(c, devices) /\ Takes(Client(c))
    \/ \E c \in Clients : get_status_body(c) /\ Keeps /\ UNCHANGED <<tvars, feed, poll>>
    \/ \E c \in Clients :
          read_frame(c, "/dev/video0") /\ Takes(Client(c)) /\ UNCHANGED <<tvars, feed, poll>>
    \/ \E c \in Clients : read_check(c) /\ Keeps /\ UNCHANGED <<tvars, feed, poll>>
    \/ \E c \in Clients :
          read_acquire(c) /\ Takes(Client(c)) /\ UNCHANGED <<tvars, feed, poll>>
    \/ \E c \in Clients : read_top(c) /\ Keeps /\ UNCHANGED <<tvars, feed, poll>>
    \/ \E c \in Clients : read_drain(c) /\ Keeps /\ UNCHANGED <<tvars, feed, poll>>
    \/ \E c \in Clients : read_next(c) /\ Keeps /\ UNCHANGED <<tvars, feed, poll>>
    \/ \E c \in Clients : read_close(c) /\ Keeps /\ UNCHANGED <<tvars, feed, poll>>
    \/ \E w \in Streamers :
          /\ \/ streamer_is_alive(w) \/ streamer_publish(w)
             \/ streamer_acquire(w)
          /\ Takes(Streamer(w)) /\ UNCHANGED <<tvars, feed, poll>>
    \/ \E w \in Streamers :
          /\ \/ streamer_loop(w) \/ streamer_put(w) \/ streamer_closed(w)
             \/ streamer_remove(w) \/ streamer_except(w) \/ streamer_exit(w)
          /\ Keeps /\ UNCHANGED <<tvars, feed, poll>>

(***************************************************************************)
(* The task orchestrator: API requests and task workers                    *)
(***************************************************************************)
InitTask ==
    /\ state_info = [task |-> "", progress |-> StrP, status |-> ""]
    /\ poll = [dict |-> state_info, pc |-> 0, ref |-> FALSE,
               history |-> {state_info}]
    /\ threads = [k \in Kinds |-> [alive |-> FALSE, thread |-> 0]]
    /\ workers = [w \in Workers |-> NoThread("none")]
    /\ nworkers = 0
    /\ calls = [c \in Callers |-> Idle]
    /\ ret = NoRet
    /\ ext = <<>>

\* the state after Builder() and Camera() have been constructed
Init == InitTask /\ InitCamera

NextTask ==
    \/ \E c \in Callers : do_build(c) /\ UNCHANGED <<cvars, owner, feed, poll>>
    \/ \E c \in Callers : do_deploy(c) /\ UNCHANGED <<cvars, owner, feed, poll>>
    \/ \E c \in Callers : task_set_state(c) /\ UNCHANGED <<cvars, owner, feed, poll>>
    \/ \E c \in Callers : task_new_thread(c) /\ UNCHANGED <<cvars, owner, feed, poll>>
    \/ \E c \in Callers : task_set_alive(c) /\ UNCHANGED <<cvars, owner, feed, poll>>
    \/ \E c \in Callers : task_start(c) /\ UNCHANGED <<cvars, owner, feed, poll>>
    \/ \E w \in Workers : builder_thread(w) /\ UNCHANGED <<cvars, owner, feed, poll>>
    \/ \E w \in Workers : deployer_thread(w) /\ UNCHANGED <<cvars, owner, feed, poll>>
    \/ \E w \in Workers : worker_fail(w) /\ UNCHANGED <<cvars, owner, feed, poll>>
    \/ \E w \in Workers : worker_clear_alive(w) /\ UNCHANGED <<cvars, owner, feed, poll>>

\* concurrent do_deploy requests and the deploy workers
NextDeploys ==
    \/ \E c \in Callers : do_deploy_images(c) /\ UNCHANGED <<cvars, owner, feed, poll>>
    \/ \E c \in Callers : task_set_state(c) /\ UNCHANGED <<cvars, owner, feed, poll>>
    \/ \E c \in Callers : task_new_thread(c) /\ UNCHANGED <<cvars, owner, feed, poll>>
    \/ \E c \in Callers : task_set_alive(c) /\ UNCHANGED <<cvars, owner, feed, poll>>
    \/ \E c \in Callers : task_start(c) /\ UNCHANGED <<cvars, owner, feed, poll>>
    \/ \E w \in Workers : deployer_thread(w) /\ UNCHANGED <<cvars, owner, feed, poll>>
    \/ \E w \in Workers : worker_fail(w) /\ UNCHANGED <<cvars, owner, feed, poll>>
    \/ \E w \in Workers : worker_clear_alive(w) /\ UNCHANGED <<cvars, owner, feed, poll>>

\* no request is in flight
NoRequest == \A c \in Callers : calls[c].pc = "idle"

\* a single API client: it sends a request only after the previous one has
\* returned; the task workers run on while later requests are handled
NextSeq ==
    \/ NoRequest /\ UNCHANGED <<cvars, owner, feed, poll>> /\ \E c \in Callers : do_build(c)
    \/ NoRequest /\ UNCHANGED <<cvars, owner, feed, poll>> /\ \E c \in Callers : do_deploy(c)
    \/ \E c \in Callers : task_set_state(c) /\ UNCHANGED <<cvars, owner, feed, poll>>
    \/ \E c \in Callers : task_new_thread(c) /\ UNCHANGED <<cvars, owner, feed, poll>>
    \/ \E c \in Callers : task_set_alive(c) /\ UNCHANGED <<cvars, owner, feed, poll>>
    \/ \E c \in Callers : task_start(c) /\ UNCHANGED <<cvars, owner, feed, poll>>
    \/ \E w \in Workers : builder_thread(w) /\ UNCHANGED <<cvars, owner, feed, poll>>
    \/ \E w \in Workers : deployer_thread(w) /\ UNCHANGED <<cvars, owner, feed, poll>>
    \/ \E w \in Workers : worker_fail(w) /\ UNCHANGED <<cvars, owner, feed, poll>>
    \/ \E w \in Workers : worker_clear_alive(w) /\ UNCHANGED <<cvars, owner, feed, poll>>

\* Util.set_state line 329, called in this step by a request handler or a
\* task worker: state_mutex is free and the call acquires it.  state_info
\* holds the triple the call is about to write
set_state_acquire ==
    /\ poll.pc = 0
    /\ poll' = [poll EXCEPT !.pc = IF state_info' # state_info THEN 1 ELSE 0]

\* Util.set_state lines 334-336: the three assignments, one at a time
set_state_assign ==
    /\ poll.pc \in {1, 2, 3}
    /\ poll' = [poll EXCEPT
          !.pc   = @ + 1,
          !.dict = CASE poll.pc = 1 -> [@ EXCEPT !.task = state_info.task]
                     [] poll.pc = 2 ->
                          [@ EXCEPT !.progress = state_info.progress]
                     [] poll.pc = 3 -> [@ EXCEPT !.status = state_info.status]]
    /\ UNCHANGED <<tvars, cvars, owner, feed>>

\* Util.set_state lines 337-338: release state_mutex and return
set_state_release ==
    /\ poll.pc = 4
    /\ poll' = [poll EXCEPT !.pc = 0, !.history = @ \cup {poll.dict}]
    /\ UNCHANGED <<tvars, cvars, owner, feed>>

\* Util.get_state lines 311-314: acquire state_mutex, take the reference
\* to Util.state_info, release, return the reference
get_state ==
    /\ poll.pc = 0 /\ ~poll.ref
    /\ poll' = [poll EXCEPT !.ref = TRUE]
    /\ UNCHANGED <<tvars, cvars, owner, feed>>

\* the caller of get_state reads the dictionary it was handed, all three
\* fields at once
poll_read ==
    /\ poll.ref
    /\ poll' = [poll EXCEPT !.ref = FALSE]
    /\ UNCHANGED <<tvars, cvars, owner, feed>>

\* a single API client as in NextSeq, with the statements of Util.set_state
\* and a poller that calls Util.get_state
NextPoll ==
    \/ /\ NoRequest /\ UNCHANGED <<cvars, owner, feed>>
       /\ \E c \in Callers : do_build(c)
       /\ set_state_acquire
    \/ /\ NoRequest /\ UNCHANGED <<cvars, owner, feed>>
       /\ \E c \in Callers : do_deploy(c)
       /\ set_state_acquire
    \/ /\ UNCHANGED <<cvars, owner, feed>>
       /\ \E c \in Callers : task_set_state(c)
       /\ set_state_acquire
    \/ /\ UNCHANGED <<cvars, owner, feed>>
       /\ \E c \in Callers : task_new_thread(c)
       /\ set_state_acquire
    \/ /\ UNCHANGED <<cvars, owner, feed>>
       /\ \E c \in Callers : task_set_alive(c)
       /\ set_state_acquire
    \/ /\ UNCHANGED <<cvars, owner, feed>>
       /\ \E c \in Callers : task_start(c)
       /\ set_state_acquire
    \/ /\ UNCHANGED <<cvars, owner, feed>>
       /\ \E w \in Workers : builder_thread(w)
       /\ set_state_acquire
    \/ /\ UNCHANGED <<cvars, owner, feed>>
       /\ \E w \in Workers : deployer_thread(w)
       /\ set_state_acquire
    \/ /\ UNCHANGED <<cvars, owner, feed>>
       /\ \E w \in Workers : worker_fail(w)
       /\ set_state_acquire
    \/ /\ UNCHANGED <<cvars, owner, feed>>
       /\ \E w \in Workers : worker_clear_alive(w)
       /\ set_state_acquire
    \/ set_state_assign
    \/ set_state_release
    \/ get_state
    \/ poll_read

\* all five request handlers, called one request at a time, while the task
\* worker of an accepted request is held up in its first external command
NextOps ==
    \/ NoRequest /\ UNCHANGED <<cvars, owner, feed, poll>> /\ \E c \in Callers : do_build(c)
    \/ NoRequest /\ UNCHANGED <<cvars, owner, feed, poll>> /\ \E c \in Callers : do_deploy(c)
    \/ NoRequest /\ UNCHANGED <<cvars, owner, feed, poll>> /\ do_generate_config
    \/ NoRequest /\ UNCHANGED <<cvars, owner, feed, poll>> /\ do_set_config
    \/ NoRequest /\ UNCHANGED <<cvars, owner, feed, poll>> /\ do_run
    \/ \E c \in Callers : task_set_state(c) /\ UNCHANGED <<cvars, owner, feed, poll>>
    \/ \E c \in Callers : task_new_thread(c) /\ UNCHANGED <<cvars, owner, feed, poll>>
    \/ \E c \in Callers : task_set_alive(c) /\ UNCHANGED <<cvars, owner, feed, poll>>
    \/ \E c \in Callers : task_start(c) /\ UNCHANGED <<cvars, owner, feed, poll>>

\* concurrent do_build / do_deploy requests and their workers
Spec    == Init /\ [][NextTask]_vars
\* do_build / do_deploy requests of one client and their workers
SpecSeq == Init /\ [][NextSeq]_vars
\* the same with a poller of the progress state
SpecPoll == Init /\ [][NextPoll]_vars
\* the request handlers against the busy check
SpecOps == Init /\ [][NextOps]_vars

SpecDeploys == Init /\ [][NextDeploys]_vars
\* concurrent camera clients and the capture workers
SpecCamera    == Init /\ [][NextCamera]_vars
\* one camera client and the capture workers
SpecCameraSeq == Init /\ [][NextCameraSeq]_vars
\* one camera client of two devices and the capture workers
SpecCameraTwo == Init /\ [][NextCameraTwo]_vars

SpecStatus == Init /\ [][NextStatus]_vars

SpecQueue == Init /\ [][NextQueue]_vars

SpecLocks == Init /\ [][NextLocks]_vars

SpecSpawn == Init /\ [][NextSpawn]_vars

SpecWatch == Init /\ [][NextWatch]_vars

SpecFrames == Init /\ [][NextFrames]_vars
\* one camera client, the feed consumers and the capture workers
SpecFeed      == Init /\ [][NextFeed]_vars
\* concurrent camera clients under fair scheduling: every thread that can
\* take a step, or can again and again, eventually takes one; new calls
\* are not forced
SpecCameraFair ==
    /\ Init /\ [][NextCamera]_vars
    /\ \A w \in Streamers :
          SF_vars(streamer_thread(w) /\ UNCHANGED <<tvars, owner, feed, poll>>)
    /\ \A c \in Clients :
          SF_vars((start_body(c) \/ stop_signal(c) \/ stop_join(c)
                     \/ stop_remove(c)) /\ UNCHANGED <<tvars, owner, feed, poll>>)

(***************************************************************************)
(* Properties                                                              *)
(***************************************************************************)
\* the run of worker w is in progress: its thread has been started and has
\* not yet written a terminal status
InRun(w) == Running(w) /\ workers[w].wstat = IN_PROGRESS

\* C1: under concurrent do_build / do_deploy calls at most one task worker
\* is in its run at any time: two overlapping calls are never both accepted.
C1_AtMostOneRun == Cardinality({w \in Workers : InRun(w)}) <= 1

\* C2: while the worker of an accepted call has not written its terminal
\* status, is_busy() is true (so that a second call is rejected).
C2_BusyDuringRun == \A w \in Workers : InRun(w) => is_busy

\* a step that enters a request handler and returns from it at once, or
\* enters do_build / do_deploy and gets past the busy check
HandlerEntry ==
    \/ ret' # NoRet /\ calls' = calls
    \/ \E c \in Callers : calls[c].pc = "idle" /\ calls'[c].pc # "idle"

\* the handler changed nothing and ran no external command
NoEffect ==
    /\ UNCHANGED <<state_info, threads, workers, nworkers, calls>>
    /\ ext' = <<>>

\* C3 as claimed: a handler called while the status is 'In Progress'
\* returns the busy error for every argument, changes nothing and runs no
\* external command.
C3_BusyForEveryArgument ==
    [][is_busy /\ HandlerEntry => ret' = BUSY /\ NoEffect]_vars

\* C3 amended: a handler called while the status is 'In Progress' changes
\* nothing and runs no external command; it returns the busy error, except
\* that do_run with an action outside start/stop/restart returns its
\* invalid-action error, which it checks before the busy check.
C3_BusyRejects ==
    [][is_busy /\ HandlerEntry
          => ret' \in {BUSY, "Invalid action"} /\ NoEffect]_vars

\* a handler has just been rejected as busy
C3_Witness == is_busy /\ ret = BUSY

\* C9 as claimed: the progress values one build run writes never decrease,
\* on the success and on the failure paths.
C9_ProgressNeverDecreases ==
    [][\A w \in Workers :
          workers[w].kind = BUILD /\ workers'[w].kind = BUILD
              => PLeq(workers[w].wrote, workers'[w].wrote)]_vars

\* C9 amended: the progress values one build run writes (0 at acceptance,
\* then the worker's values) never decrease as long as the run writes
\* status 'In Progress' or 'Success'; the write of status 'Failed' sets the
\* progress back to 0.
C9_ProgressMonotoneUntilFailed ==
    [][\A w \in Workers :
          workers[w].kind = BUILD /\ workers'[w].kind = BUILD
              => IF workers'[w].wstat = FAILED
                 THEN workers'[w].wrote = IntP(0)
                 ELSE PLeq(workers[w].wrote, workers'[w].wrote)]_vars

\* a build run has written progress 50 and is still in progress
C9_Witness ==
    \E w \in Workers : /\ workers[w].kind = BUILD
                       /\ workers[w].wstat = IN_PROGRESS
                       /\ workers[w].wrote = IntP(50)
                       /\ state_info.progress = IntP(50)

\* C10: a build run that has written progress 100 with status 'Success' has
\* run, with success, the build command of every service of its list, or
\* the aggregate build command in batch mode.
C10_SuccessOnlyIfAllBuilt ==
    \A w \in Workers :
        workers[w].kind = BUILD /\ workers[w].wstat = SUCCESS
            => IF workers[w].sequential
               THEN workers[w].i = Len(workers[w].list)
               ELSE workers[w].done

\* C11 as claimed: when a build step fails, the worker writes status
\* 'Failed' and leaves the progress at the last value the run has written.
C11_FailureKeepsProgress ==
    [][\A w \in Workers :
          /\ workers[w].kind = BUILD
          /\ workers[w].pc = "fail" /\ workers'[w].pc = "clear_alive"
          => /\ state_info'.status = FAILED
             /\ state_info'.progress = workers[w].wrote]_vars

\* C11 amended: when a build step fails, the worker writes task 'build',
\* status 'Failed' and progress 0, whatever progress the run had reached.
C11_FailureResetsProgress ==
    [][\A w \in Workers :
          /\ workers[w].kind = BUILD
          /\ workers[w].pc = "fail" /\ workers'[w].pc = "clear_alive"
          => state_info' = [task |-> BUILD, progress |-> IntP(0),
                            status |-> FAILED]]_vars

\* a build run has failed after it had built a service and published the
\* progress of that step
C11_Witness ==
    \E w \in Workers :
        /\ workers[w].kind = BUILD /\ workers[w].pc = "clear_alive"
        /\ workers[w].wstat = FAILED /\ workers[w].i >= 1
        /\ state_info = [task |-> BUILD, progress |-> IntP(0),
                         status |-> FAILED]

\* C12: once an external command of a build or deploy run has returned
\* failure, the next thing the worker does is to write status 'Failed', and
\* it issues no further external command in that run.
C12_StopsAtFirstFailure ==
    [][\A w \in Workers :
          workers[w].failed /\ workers'[w] # workers[w]
          => /\ workers'[w].wstat = FAILED \/ workers'[w].pc = "exited"
             /\ workers[w].wstat # FAILED
                   => /\ workers'[w].wstat = FAILED
                      /\ state_info'.status = FAILED
             /\ workers'[w].ran = workers[w].ran
                   \/ workers'[w].pc = "exited"]_vars

\* a run has issued a second command that failed, and has written 'Failed'
C12_Witness ==
    \E w \in Workers :
        /\ workers[w].failed /\ workers[w].ran >= 2
        /\ workers[w].wstat = FAILED /\ state_info.status = FAILED

\* C13: the status is 'In Progress' only while a do_build / do_deploy call
\* is in flight or a task worker thread is running; it is never left
\* 'In Progress' after the worker thread has ended.
C13_NeverLeftInProgress ==
    is_busy => \/ \E c \in Callers : calls[c].pc # "idle"
               \/ \E w \in Workers : Running(w)

\* C14: a build worker that leaves its loop because the alive flag is
\* false, with services left to build, does not end in status 'Success'.
C14_CancelledBuildFails ==
    [][\A w \in Workers :
          /\ workers[w].kind = BUILD /\ workers[w].sequential
          /\ workers[w].pc = "success"
          /\ workers[w].i < Len(workers[w].list)
          /\ workers'[w] # workers[w]
          => workers'[w].wstat # SUCCESS]_vars

\* C15: the deploy worker exports no image when the alive flag is false at
\* the check before that image; when the flag is false at entry to the sync
\* step it runs no sync command, writes status 'Failed' and returns.
C15_DeployChecksAlive ==
    [][\A w \in Workers :
          workers[w].kind = DEPLOY /\ workers'[w] # workers[w]
          => /\ workers[w].pc \in {"loop", "check"} /\ ~threads[DEPLOY].alive
                   => /\ workers'[w].ran = workers[w].ran
                      /\ workers'[w].pc =
                            IF workers[w].pc = "loop" THEN "check" ELSE "cancel"
             /\ workers[w].pc = "cancel"
                   => /\ workers'[w].pc = "exited"
                      /\ state_info' = [task |-> DEPLOY, progress |-> IntP(0),
                                        status |-> FAILED]]_vars

\* a deploy worker has exported every image, has found the alive flag false
\* at entry to the sync step and is about to write 'Failed'
C15_Witness ==
    \E w \in Workers :
        /\ workers[w].kind = DEPLOY /\ workers[w].pc = "cancel"
        /\ workers[w].i = Len(workers[w].list) /\ workers[w].i >= 1
        /\ workers[w].ran = workers[w].i

\* C29: a request rejected for malformed parameters (do_generate_config
\* with several instances and no VideoIngestion component, do_run with an
\* unknown action) changes no state, writes no file and runs no command.
C29_RejectedBeforeAnyEffect ==
    [][ret' \in {"unsupported multi-instance configuration", "Invalid action"}
          => NoEffect]_vars

\* C30: once a task has been accepted, the progress of the shared state is
\* a whole number between 0 and 100.
C30_ProgressIsIntegerPercent ==
    state_info.status # ""
        => /\ state_info.progress.den = 1
           /\ state_info.progress.num \in 0..100

\* C31: the write that follows the i-th successful build command of a
\* sequential build of total services publishes task 'build', status
\* 'In Progress' and the progress floor(i*100/total); a batch build
\* publishes progress 50 with status 'In Progress' when it has issued no
\* command but the removal of the old log, and its build command comes
\* after that write
C31_BuildProgressValues ==
    [][\A w \in Workers :
          /\ workers[w].kind = BUILD /\ workers[w].pc = "progress"
                /\ workers'[w].pc # "progress" =>
                   /\ state_info'.task = BUILD
                   /\ state_info'.status = IN_PROGRESS
                   /\ state_info'.progress.type = "int"
                   /\ state_info'.progress.den = 1
                   /\ LET n == state_info'.progress.num
                          total == Len(workers[w].list)
                      IN  /\ n * total <= workers[w].i * 100
                          /\ workers[w].i * 100 < (n + 1) * total
          /\ workers[w].kind = BUILD /\ workers[w].pc = "batch50"
                /\ workers'[w].pc # "batch50" =>
                   /\ workers[w].ran = 1
                   /\ workers'[w].ran = 2
                   /\ state_info' = [task |-> BUILD, progress |-> IntP(50),
                                     status |-> IN_PROGRESS]]_vars

\* the second of three services has been built: the progress is 66
C31_Witness ==
    /\ state_info = [task |-> BUILD, progress |-> IntP(66),
                     status |-> IN_PROGRESS]
    /\ \E w \in Workers :
          /\ workers[w].kind = BUILD /\ workers[w].pc = "loop"
          /\ workers[w].i = 2 /\ Len(workers[w].list) = 3

\* C33: the write that follows the i-th export of a deploy of N images
\* publishes task 'deploy', status 'In Progress' and progress i*100/(N+1);
\* every export is that of the next image of the list; and a deploy worker
\* writes 'Success', with progress 100, only when it has exported all N
\* images and then run one sync command, N+1 commands in all, which
\* succeeded
C33_DeployOrder ==
    [][\A w \in Workers : workers[w].kind = DEPLOY =>
          /\ workers[w].pc = "progress" /\ workers'[w].pc # "progress" =>
                /\ state_info'.task = DEPLOY
                /\ state_info'.status = IN_PROGRESS
                /\ state_info'.progress.num * (Len(workers[w].list) + 1)
                      = workers[w].i * 100 * state_info'.progress.den
                /\ workers'[w].pc = "loop"
          /\ workers[w].pc = "loop" /\ workers'[w].ran # workers[w].ran =>
                /\ workers[w].ran = workers[w].i
                /\ workers'[w].ran = workers[w].ran + 1
                /\ workers'[w].pc = "progress" => workers'[w].i = workers[w].i + 1
          /\ workers[w].wstat # SUCCESS /\ workers'[w].wstat = SUCCESS =>
                /\ workers[w].i = Len(workers[w].list)
                /\ workers[w].ran = Len(workers[w].list) + 1
                /\ workers[w].done /\ ~workers[w].failed
                /\ state_info' = [task |-> DEPLOY, progress |-> IntP(100),
                                  status |-> SUCCESS]]_vars

\* the step is the initial Util.set_state(kind, 0) of an accepted do_build or
\* do_deploy call
AcceptedRunBegins ==
    \E c \in Callers :
       /\ calls[c].pc = "set_state" /\ calls'[c].pc = "thread"
       /\ state_info' = [task |-> calls[c].kind, progress |-> IntP(0),
                         status |-> IN_PROGRESS]

\* C32: the status becomes 'In Progress' from another status only by the
\* initial set_state of an accepted do_build / do_deploy, and a state_info
\* with status 'Success' or 'Failed' is changed by no other write
C32_StatusStateMachine ==
    [][/\ ~is_busy /\ state_info'.status = IN_PROGRESS => AcceptedRunBegins
       /\ state_info.status \in {SUCCESS, FAILED} /\ state_info' # state_info
             => AcceptedRunBegins]_vars

\* C39: the alive flag of a kind is true only while a worker of that kind
\* runs, or while the request that has set it is about to start the
\* worker; once the worker has ended, however it ended, the flag is false
C39_AliveOnlyWhileRunning ==
    \A k \in Kinds :
       threads[k].alive =>
          \/ \E w \in Workers : workers[w].kind = k /\ Running(w)
          \/ \E c \in Callers : calls[c].kind = k /\ calls[c].pc = "start"

(***************************************************************************)
(* Properties of the camera service                                        *)
(***************************************************************************)
\* the capture worker w has been started and has not left streamer_thread
Streaming(w) == streamers[w].pc \notin {"none", "exiting", "exited"}

\* client c's stop call returns in this step
StopReturns(c) ==
    requests[c].op = "stop" /\ requests'[c].op = "idle" /\ cret'.res = "ok"

\* C4: when stop(devices) returns to a client that calls start and stop one
\* after the other, no listed device has a registry entry and no capture
\* worker of a listed device is still running
C4_StoppedDeviceIsGone ==
    [][\A c \in Clients : StopReturns(c) =>
          \A d \in Range(cret'.devices) :
             /\ d \notin DOMAIN device_threads'
             /\ \A w \in Streamers : streamers'[w].dev # d]_vars

\* client c's start call executes its loop in this step
StartRuns(c) == requests[c].pc = "start_cs" /\ requests'[c].op = "idle"

\* C5: a start call leaves the entry of every device that is already
\* registered as it is and creates no thread for it, so the worker threads
\* of the device are those that existed before the call
C5_StartIsIdempotent ==
    [][\A c \in Clients : StartRuns(c) =>
          \A d \in DOMAIN device_threads :
             /\ d \in DOMAIN device_threads'
             /\ device_threads'[d] = device_threads[d]
             /\ \A w \in Streamers :
                   streamers'[w].dev = d => streamers[w].dev = d]_vars

\* C5: a start call that named a registered device has returned without
\* creating a thread
C5_Witness ==
    /\ cret.op = "start" /\ cret.res = "ok" /\ cret.n = 0
    /\ cret.devices # <<>>
    /\ Range(cret.devices) \subseteq DOMAIN device_threads

\* C6: a device has an entry exactly when the capture worker of that entry
\* runs or has ended without being reaped; every running capture worker is
\* the worker of the entry of its device
C6_EntryIffWorker ==
    /\ \A d \in DOMAIN device_threads :
          streamers[device_threads[d].thread].pc # "none"
    /\ \A w \in Streamers : Streaming(w) =>
          /\ streamers[w].dev \in DOMAIN device_threads
          /\ device_threads[streamers[w].dev].thread = w

\* C7: under fair scheduling every stop call eventually returns
C7_StopReturns ==
    \A c \in Clients : requests[c].op = "stop" ~> requests[c].op # "stop"

\* C8: the signal phase of stop removes no entry, and stop removes an entry
\* only when it has joined the thread of that very entry
C8_RemovesOnlyJoined ==
    [][\A c \in Clients :
          /\ requests[c].pc = "signal_cs" /\ requests'[c].pc # "signal_cs"
                => DOMAIN device_threads' = DOMAIN device_threads
          /\ requests[c].pc = "remove_cs" /\ requests'[c].pc # "remove_cs"
                => \A d \in DOMAIN device_threads \ DOMAIN device_threads' :
                      /\ d \in DOMAIN requests[c].snap
                      /\ device_threads[d].thread = requests[c].snap[d]
                      /\ streamers[device_threads[d].thread].pc = "exited"]_vars

\* client c's read_frame call waits on the condition of an entry
Waiting(c) == requests[c].op = "read" /\ requests[c].pc = "wait"

\* the entry whose condition client c waits on is the entry its device has
\* in the registry
Attached(c) ==
    /\ requests[c].devices[1] \in DOMAIN device_threads
    /\ device_threads[requests[c].devices[1]].thread
          = requests[c].snap[requests[c].devices[1]]

\* C16: a feed consumer never waits for the next frame of an entry that has
\* left the registry: once the entry has disappeared no publish can wake
\* the consumer, so it would not terminate.
C16_NoConsumerLeftWaiting ==
    \A c \in Clients : Waiting(c) => Attached(c)

\* C17: a feed consumer never waits for the next frame while the queue of
\* its entry is full: the capture worker notifies only after a put, and it
\* puts nothing into a full queue, so the consumer would not be woken.
C17_NoWaitOnFullQueue ==
    \A c \in Clients :
        Waiting(c) /\ Attached(c)
            => device_threads[requests[c].devices[1]].frames < BUFF_SIZE

\* C18: an entry whose alive flag is true belongs to a capture worker whose
\* thread has not ended: a worker that stops capturing without a stop call
\* removes its entry before it ends.
C18_FailedWorkerRemovesEntry ==
    \A d \in DOMAIN device_threads :
        device_threads[d].alive
            => streamers[device_threads[d].thread].pc # "exited"

\* C19: a capture worker removes the entry of its device only while the
\* alive flag of the entry is true, never after a stop has been requested.
C19_WorkerRemovesOnlyAlive ==
    [][\A w \in Streamers :
          /\ streamers[w].pc = "remove_cs"
          /\ streamers[w].dev \in DOMAIN device_threads
          /\ streamers[w].dev \notin DOMAIN device_threads'
          => device_threads[streamers[w].dev].alive]_vars

\* the capture worker w is inside a critical section of the registry mutex
InCriticalSection(w) ==
    streamers[w].pc \in {"alive_loop", "publish_cs", "alive_closed", "remove_cs"}

\* C20: devices are isolated.  A step of the capture worker of one device
\* leaves the entry of every other device as it is and does not take the
\* registry mutex away from the worker of another device that holds it;
\* and a capture worker ends up in its exception handler only through an
\* exception of its own capture, never through one raised by the registry
\* or the mutex.
C20_DevicesIsolated ==
    [][\A w \in Streamers :
          /\ streamers'[w] # streamers[w] /\ streamers[w].dev # ""
                => /\ \A d \in DOMAIN device_threads \ {streamers[w].dev} :
                         /\ d \in DOMAIN device_threads'
                         /\ device_threads'[d] = device_threads[d]
                   /\ \A v \in Streamers :
                         /\ streamers[v].dev \notin {"", streamers[w].dev}
                         /\ InCriticalSection(v)
                         => mutex' = mutex
          /\ streamers'[w].pc = "except" /\ streamers[w].pc # "except"
                => streamers[w].pc = "alive_loop" /\ ~Raises(w)]_vars

\* the get_status call of client c returns its dictionary in this step
StatusReturns(c) ==
    /\ requests[c].op = "status" /\ requests[c].pc = "status_cs"
    /\ cret'.op = "status" /\ cret'.res = "ok"

\* C21: the dictionary get_status returns has one item per requested device
\* (per registered device when the list is empty); the item of a device
\* with a registry entry at that moment is 'Running' with the entry's stream
\* id, the item of any other device is 'Not Running' without a stream id
C21_StatusMatchesRegistry ==
    [][\A c \in Clients : StatusReturns(c) =>
          LET report == cret'.status
              asked  == requests[c].arg
          IN  /\ DOMAIN report = IF asked = <<>> THEN DOMAIN device_threads
                                                 ELSE Range(asked)
              /\ \A d \in DOMAIN report :
                    IF d \in DOMAIN device_threads
                    THEN /\ DOMAIN report[d] = {"status", "stream_id"}
                         /\ report[d].status = "Running"
                         /\ report[d].stream_id = device_threads[d].id
                    ELSE /\ DOMAIN report[d] = {"status"}
                         /\ report[d].status = "Not Running"]_vars

\* get_status has reported one device as running and another as not running
C21_Witness ==
    /\ cret.op = "status" /\ cret.res = "ok"
    /\ cret.arg = <<"/dev/video1", "/dev/video0">>
    /\ cret.status["/dev/video1"].status = "Not Running"
    /\ cret.status["/dev/video0"].status = "Running"
    /\ cret.status["/dev/video0"].stream_id # 0

\* C22: when a start call returns, every device it was given has a registry
\* entry whose alive flag is true and whose stream id is set
C22_StartedDevicesAlive ==
    [][\A c \in Clients :
          StartRuns(c) /\ cret'.res = "ok" =>
             \A d \in Range(requests[c].arg) :
                /\ d \in DOMAIN device_threads'
                /\ device_threads'[d].alive
                /\ device_threads'[d].id # 0]_vars

\* client c's stop call executes its signal phase in this step, holding the
\* mutex up to its release
StopSignals(c) ==
    requests[c].pc = "signal_cs" /\ requests'[c].pc # "signal_cs" /\ mutex

\* C23: (1) the signal phase of a stop call with an empty list clears the
\* alive flag of every registered device and goes on to join the thread of
\* every one of them; (2) the signal phase of a stop call with a list
\* leaves the registry's devices as they are and goes on to join only
\* listed devices that are registered, and returns at once when there is
\* none; (3) when a stop call returns, the thread of every device it had
\* found registered has ended and has been joined, and no device of its
\* list has an entry
C23_StopOfAllRegistered ==
    [][\A c \in Clients :
          /\ StopSignals(c) /\ requests[c].arg = <<>> =>
                /\ \A d \in DOMAIN device_threads :
                      ~device_threads'[d].alive
                /\ IF DOMAIN device_threads = {}
                   THEN cret'.op = "stop" /\ cret'.res = "ok" /\ cret'.n = 0
                   ELSE /\ requests'[c].pc = "join"
                        /\ Range(requests'[c].devices) = DOMAIN device_threads
                        /\ requests'[c].snap =
                              [d \in DOMAIN device_threads |->
                                  device_threads[d].thread]
          /\ StopSignals(c) /\ requests[c].arg # <<>> =>
                /\ DOMAIN device_threads' = DOMAIN device_threads
                /\ IF Range(requests[c].arg) \cap DOMAIN device_threads = {}
                   THEN /\ cret'.op = "stop" /\ cret'.res = "ok"
                        /\ cret'.n = 0
                        /\ device_threads' = device_threads
                   ELSE /\ requests'[c].pc = "join"
                        /\ requests'[c].devices = requests[c].arg
                        /\ DOMAIN requests'[c].snap =
                              Range(requests[c].arg) \cap DOMAIN device_threads
          /\ StopReturns(c) =>
                /\ \A d \in Range(cret'.devices) :
                      d \notin DOMAIN device_threads'
                /\ \A d \in DOMAIN requests[c].snap :
                      streamers[requests[c].snap[d]].pc = "exited"
                /\ cret'.n = Cardinality({k \in 1..Len(cret'.devices) :
                                 cret'.devices[k] \in DOMAIN requests[c].snap})
      ]_vars

\* a stop call with an empty list has returned after joining the threads of
\* two registered devices, and the registry is empty
C23_Witness ==
    /\ cret.op = "stop" /\ cret.res = "ok"
    /\ cret.arg = <<>> /\ cret.n = 2
    /\ Range(cret.devices) = Devices
    /\ DOMAIN device_threads = {}

\* a stop call for a registered and an unregistered device has returned
\* after joining one thread
C23_WitnessSkipped ==
    /\ cret.op = "stop" /\ cret.res = "ok"
    /\ cret.arg = <<"/dev/video1", "/dev/video0">> /\ cret.n = 1

\* capture worker w executes lines 121-127 in this step and finds the entry
\* of its device and the mutex it holds
Puts(w) ==
    /\ streamers[w].pc = "publish_cs" /\ streamers'[w].pc # "publish_cs"
    /\ ~Raises(w)

\* C24: no queue ever holds more than BUFF_SIZE frames, and a worker that
\* has a frame for a queue holding BUFF_SIZE frames leaves the queue as it
\* is and goes on with its capture loop
C24_QueueBounded ==
    [][/\ \A d \in DOMAIN device_threads' :
             device_threads'[d].frames <= BUFF_SIZE
       /\ \A w \in Streamers :
             Puts(w) /\ device_threads[streamers[w].dev].frames = BUFF_SIZE =>
                /\ device_threads' = device_threads
                /\ streamers'[w].pc = "loop"]_vars

\* a worker has a frame to put while the queue of its device is full
C24_Witness ==
    \E w \in Streamers :
       /\ streamers[w].pc = "publish_cs"
       /\ ~Raises(w)
       /\ device_threads[streamers[w].dev].frames = BUFF_SIZE

\* the feed generator of client c is closed in this step, at its yield
Disconnects(c) ==
    /\ requests[c].op = "read" /\ requests[c].pc = "yield"
    /\ requests'[c].op = "idle"
    /\ cret'.op = "read" /\ cret'.res = "closed"

ChecksUnregistered(c) ==
    /\ requests[c].op = "read" /\ requests[c].pc = "check_cs"
    /\ requests'[c].pc # "check_cs"
    /\ requests[c].devices[1] \notin DOMAIN device_threads

\* C26: the feed of a device without an entry ends in its first critical
\* section: the generator finishes there without having yielded a frame and
\* without having waited on a condition, and the registry is as it was
C26_UnknownFeedEnds ==
    [][\A c \in Clients : ChecksUnregistered(c) =>
          /\ requests'[c].op = "idle"
          /\ cret'.op = "read" /\ cret'.n = 0
          /\ mutex => cret'.res = "ok"
          /\ device_threads' = device_threads]_vars

\* the feed of a device that was never started has ended without a frame
\* while another device is registered
C26_Witness ==
    /\ cret.op = "read" /\ cret.res = "ok" /\ cret.n = 0
    /\ cret.arg = <<"/dev/video1">>
    /\ DOMAIN device_threads = {"/dev/video0"}

\* C28: when a start call ends, whether it returns or a thread could not be
\* started, the mutex is free and every device of its list has an entry
C28_StartSurvivesSpawnFailure ==
    [][\A c \in Clients : StartRuns(c) =>
          /\ mutex' = FALSE
          /\ \A d \in Range(requests[c].arg) :
                d \in DOMAIN device_threads']_vars

\* thread t is in a blocking operation or between two of them with no
\* statement on the registry in between.  A request thread: in join() (line
\* 235) or in cond.wait() (line 172).  A capture thread: about to open the
\* device (line 101); back from cap.read() and the encoding with a frame
\* (lines 105-119); back from cap.read() and time.sleep(0.2) without one
\* (lines 105-108); in time.sleep(1) (line 136)
Blocking(t) ==
    \/ \E c \in Clients :
          t = Client(c) /\ requests[c].pc \in {"join", "wait"}
    \/ \E w \in Streamers :
          t = Streamer(w)
             /\ streamers[w].pc \in {"open", "publish", "loop", "remove"}

Signalled(w) ==
    \E c \in Clients :
       /\ requests[c].op = "stop" /\ requests[c].pc \in {"join", "remove_cs"}
       /\ \E d \in DOMAIN requests[c].snap : requests[c].snap[d] = w

\* C34: once a stop call has signalled a capture worker, the worker's next
\* test of the alive flag at the top of its frame loop takes it out of the
\* loop, so that it publishes no frame but the one it was working on; out
\* of the loop it has released the device
C34_SignalledWorkerLeavesLoop ==
    [][\A w \in Streamers :
          Signalled(w) /\ streamers[w].pc = "alive_loop"
             /\ streamers'[w].pc # "alive_loop"
          => /\ streamers'[w].pc \in {"closed", "except"}
             /\ streamers'[w].pc = "closed" => ~streamers'[w].opened]_vars

RECURSIVE Increasing(_)
\* the frame numbers of sequence q increase
Increasing(q) ==
    Len(q) < 2 \/ (q[1] < q[2] /\ Increasing(Tail(q)))

\* C35: the frames a read_frame call has yielded are in the order in which
\* they were published, and no frame has been yielded to two calls
C35_FeedInOrder ==
    /\ \A c \in Clients : Increasing(feed.yielded[c])
    /\ \A c, k \in Clients :
          c # k => Range(feed.yielded[c]) \cap Range(feed.yielded[k]) = {}

\* thread t is between an acquire() of Camera.mutex and the release() that
\* ends the critical section, in camera calls rq and capture workers st
Inside(t, rq, st) ==
    \/ \E c \in Clients :
          /\ t = Client(c)
          /\ rq[c].pc \in {"start_cs", "signal_cs", "remove_cs", "status_cs",
                            "check_cs", "top_cs"}
    \/ \E w \in Streamers :
          /\ t = Streamer(w)
          /\ st[w].pc \in {"alive_loop", "publish_cs", "alive_closed",
                            "remove_cs"}

\* C36: Camera.mutex is released only by the thread that locked it, at the
\* end of that thread's critical section, and no release() finds the
\* mutex unlocked
C36_ReleasedByHolder ==
    [][/\ mutex /\ ~mutex' =>
             /\ Inside(owner, requests, streamers)
             /\ ~Inside(owner, requests', streamers')
       /\ cret'.res # "RuntimeError"]_vars

\* the capture workers st that are running for device d
Capturing(st, d) ==
    {w \in Streamers :
        st[w].dev = d /\ st[w].pc \notin {"none", "unstarted", "exiting", "exited"}}

\* C37: at most one capture worker runs for a device at any time, and the
\* removal phase of a stop call deletes only entries that the call's own
\* signal phase has seen, never the entry of a start that came later
C37_OneWorkerPerDevice ==
    [][/\ \A d \in Devices : Cardinality(Capturing(streamers', d)) <= 1
       /\ \A c \in Clients :
             /\ requests[c].op = "stop" /\ requests[c].pc = "remove_cs"
             /\ requests'[c].pc # "remove_cs"
             => \A d \in DOMAIN device_threads \ DOMAIN device_threads' :
                   /\ d \in DOMAIN requests[c].snap
                   /\ device_threads[d].thread = requests[c].snap[d]]_vars

\* C38: the triple a poller reads from what Util.get_state() returned is
\* one that Util.state_info has held between two set_state calls (or
\* before the first), never one that only exists halfway through a call
C38_ConsistentSnapshot ==
    [][poll.ref /\ ~poll'.ref => poll.dict \in poll.history]_vars

\* the stop call of client c lists a device twice, or runs while another
\* stop call does, or is in its removal phase for a device whose entry has
\* gone since its signal phase
RepeatedStop(c) ==
    /\ requests[c].op = "stop"
    /\ \/ \E i, j \in 1..Len(requests[c].arg) :
             i # j /\ requests[c].arg[i] = requests[c].arg[j]
       \/ \E k \in Clients \ {c} : requests[k].op = "stop"
       \/ /\ requests[c].pc = "remove_cs"
          /\ requests[c].devices[requests[c].i] \notin DOMAIN device_threads

\* C40: a stop call that lists a device twice, or that runs next to another
\* stop call, or whose device has lost its entry in between, returns
\* without an error, and the devices it was to stop have no entry when it
\* returns
C40_StopsAreSafe ==
    [][\A c \in Clients :
          RepeatedStop(c) /\ requests'[c].op = "idle"
          => /\ cret'.res = "ok"
             /\ \A d \in Range(cret'.devices) :
                   d \notin DOMAIN device_threads']_vars

====
